---- MODULE Spec2Model ----
(***************************************************************************)
(* Deal Filtering, Sorting & Aggregation Engine of the Deal Analytics      *)
(* dashboard (src/src/DealAnalyticsDashboard.jsx and its simplified        *)
(* variant src/unnamed/part_000).                                          *)
(*                                                                         *)
(* JavaScript values are modelled as records [t, m, e, s]:                 *)
(*   t = "undef" | "null" | "bool" | "num" | "nan" | "str"                 *)
(*   a number is m / 10^e (normalised), a boolean has m = 1 or 0,          *)
(*   a string is the sequence s of its characters.                         *)
(***************************************************************************)
EXTENDS Integers, Sequences, FiniteSets, TLC

\* ------------------------------------------------------------------------
\* JavaScript values
\* ------------------------------------------------------------------------
Undef == [t |-> "undef", m |-> 0, e |-> 0, s |-> <<>>]
Null == [t |-> "null", m |-> 0, e |-> 0, s |-> <<>>]
NaN == [t |-> "nan", m |-> 0, e |-> 0, s |-> <<>>]
Bool(b) == [t |-> "bool", m |-> IF b THEN 1 ELSE 0, e |-> 0, s |-> <<>>]
Str(chars) == [t |-> "str", m |-> 0, e |-> 0, s |-> chars]

RECURSIVE Pow10(_)
Pow10(k) == IF k = 0 THEN 1 ELSE 10 * Pow10(k - 1)

\* the number m / 10^e, with trailing zeros of the fraction removed
RECURSIVE Dec(_, _)
Dec(m, e) ==
  IF e > 0 /\ m % 10 = 0 THEN Dec(m \div 10, e - 1)
  ELSE [t |-> "num", m |-> m, e |-> e, s |-> <<>>]

Num(n) == Dec(n, 0)

IsNum(v) == v.t = "num"

\* a < b on Numbers: false as soon as one side is NaN
NumLt(a, b) == IsNum(a) /\ IsNum(b) /\ a.m * Pow10(b.e) < b.m * Pow10(a.e)
NumGt(a, b) == NumLt(b, a)

\* the sign of a - b for two Numbers that are not NaN
NumSign(a, b) ==
  IF NumLt(a, b) THEN -1 ELSE IF NumLt(b, a) THEN 1 ELSE 0

\* ------------------------------------------------------------------------
\* Characters and strings (a string is a sequence of one-character strings)
\* ------------------------------------------------------------------------
Digits == <<"0", "1", "2", "3", "4", "5", "6", "7", "8", "9">>
UpperChars == <<"A", "B", "C", "D", "E", "F", "G", "H", "I", "J", "K", "L", "M",
                "N", "O", "P", "Q", "R", "S", "T", "U", "V", "W", "X", "Y", "Z">>
LowerChars == <<"a", "b", "c", "d", "e", "f", "g", "h", "i", "j", "k", "l", "m",
                "n", "o", "p", "q", "r", "s", "t", "u", "v", "w", "x", "y", "z">>

\* the characters of the model in the order of their UTF-16 code units
Ascii == <<" ", "$", ",", "-", ".", "/">> \o Digits \o <<":", "?">> \o UpperChars \o LowerChars

IndexOf(seq, c) == CHOOSE i \in 1..Len(seq) : seq[i] = c
Has(seq, c) == \E i \in 1..Len(seq) : seq[i] = c

Code(c) == IndexOf(Ascii, c)
IsDigit(c) == Has(Digits, c)
DigitVal(c) == IndexOf(Digits, c) - 1

toUpperChar(c) == IF Has(LowerChars, c) THEN UpperChars[IndexOf(LowerChars, c)] ELSE c
toLowerChar(c) == IF Has(UpperChars, c) THEN LowerChars[IndexOf(UpperChars, c)] ELSE c
toUpperCase(str) == [i \in 1..Len(str) |-> toUpperChar(str[i])]
toLowerCase(str) == [i \in 1..Len(str) |-> toLowerChar(str[i])]

\* String.prototype.includes
includes(str, sub) ==
  \E i \in 0..(Len(str) - Len(sub)) : SubSeq(str, i + 1, i + Len(sub)) = sub

\* a < b on two strings: code units, left to right; a proper prefix is smaller
RECURSIVE StrLt(_, _)
StrLt(a, b) ==
  IF b = <<>> THEN FALSE
  ELSE IF a = <<>> THEN TRUE
  ELSE IF Code(Head(a)) # Code(Head(b)) THEN Code(Head(a)) < Code(Head(b))
  ELSE StrLt(Tail(a), Tail(b))

\* String.prototype.split on a one-character separator
RECURSIVE split(_, _)
split(str, sep) ==
  IF ~Has(str, sep) THEN <<str>>
  ELSE LET i == CHOOSE j \in 1..Len(str) :
                  str[j] = sep /\ \A k \in 1..(j - 1) : str[k] # sep
       IN <<SubSeq(str, 1, i - 1)>> \o split(SubSeq(str, i + 1, Len(str)), sep)

RECURSIVE trimStart(_)
trimStart(str) ==
  IF str # <<>> /\ Head(str) = " " THEN trimStart(Tail(str)) ELSE str

RECURSIVE trimEnd(_)
trimEnd(str) ==
  IF str # <<>> /\ str[Len(str)] = " " THEN trimEnd(SubSeq(str, 1, Len(str) - 1)) ELSE str

trim(str) == trimEnd(trimStart(str))

\* the longest prefix of str made of digits
RECURSIVE DigitPrefix(_)
DigitPrefix(str) ==
  IF str # <<>> /\ IsDigit(Head(str)) THEN <<Head(str)>> \o DigitPrefix(Tail(str)) ELSE <<>>

RECURSIVE DigitsVal(_)
DigitsVal(ds) ==
  IF ds = <<>> THEN 0 ELSE 10 * DigitsVal(SubSeq(ds, 1, Len(ds) - 1)) + DigitVal(ds[Len(ds)])

\* ------------------------------------------------------------------------
\* Conversions of the language
\* ------------------------------------------------------------------------
\* The numeric prefix (sign, digits, fraction) of a string as JavaScript's
\* StrDecimalLiteral reads it: [ok, val, len]. The strings of the model hold
\* no "+", no exponent and no "Infinity" (after the comparator's stripping
\* such forms cannot occur at all).
DecimalPrefix(str) ==
  LET neg == str # <<>> /\ Head(str) = "-"
      r1 == IF neg THEN Tail(str) ELSE str
      ip == DigitPrefix(r1)
      r2 == SubSeq(r1, Len(ip) + 1, Len(r1))
      dot == r2 # <<>> /\ Head(r2) = "."
      fp == IF dot THEN DigitPrefix(Tail(r2)) ELSE <<>>
      mag == DigitsVal(ip) * Pow10(Len(fp)) + DigitsVal(fp)
      hasDigits == ip # <<>> \/ fp # <<>>
  IN [ok |-> hasDigits,
      val |-> Dec(IF neg THEN 0 - mag ELSE mag, Len(fp)),
      len |-> (IF neg THEN 1 ELSE 0) + Len(ip) + (IF dot THEN 1 + Len(fp) ELSE 0)]

\* parseFloat(string): the longest numeric prefix after leading blanks, or NaN
parseFloat(str) ==
  LET p == DecimalPrefix(trimStart(str)) IN IF p.ok THEN p.val ELSE NaN

\* parseInt(string) with no radix: blanks, a sign, then the digits; NaN when
\* there is no digit. (No "0x" prefix occurs in the strings of the model.)
parseInt(str) ==
  LET r0 == trimStart(str)
      neg == r0 # <<>> /\ Head(r0) = "-"
      ds == DigitPrefix(IF neg THEN Tail(r0) ELSE r0)
  IN IF ds = <<>> THEN NaN
     ELSE Num(IF neg THEN 0 - DigitsVal(ds) ELSE DigitsVal(ds))

\* ToNumber of a string: blank is 0, a whole numeric literal is its value,
\* anything else NaN
StringToNumber(str) ==
  LET r == trim(str)
      p == DecimalPrefix(r)
  IN IF r = <<>> THEN Num(0)
     ELSE IF p.ok /\ p.len = Len(r) THEN p.val
     ELSE NaN

ToNumber(v) ==
  CASE v.t = "undef" -> NaN
    [] v.t = "null" -> Num(0)
    [] v.t = "bool" -> Num(v.m)
    [] v.t = "num" -> v
    [] v.t = "nan" -> NaN
    [] v.t = "str" -> StringToNumber(v.s)

\* ToBoolean
Truthy(v) ==
  CASE v.t = "undef" -> FALSE
    [] v.t = "null" -> FALSE
    [] v.t = "bool" -> v.m = 1
    [] v.t = "num" -> v.m # 0
    [] v.t = "nan" -> FALSE
    [] v.t = "str" -> v.s # <<>>

\* a || b
Or(a, b) == IF Truthy(a) THEN a ELSE b

RECURSIVE NatToChars(_)
NatToChars(n) ==
  IF n < 10 THEN <<Digits[n + 1]>> ELSE NatToChars(n \div 10) \o <<Digits[(n % 10) + 1]>>

\* the fraction digits of a number m / 10^e, left-padded to e digits
RECURSIVE FracChars(_, _)
FracChars(f, e) ==
  IF e = 0 THEN <<>> ELSE FracChars(f \div 10, e - 1) \o <<Digits[(f % 10) + 1]>>

NumberToChars(v) ==
  LET a == IF v.m < 0 THEN 0 - v.m ELSE v.m
      body == NatToChars(a \div Pow10(v.e))
              \o (IF v.e = 0 THEN <<>> ELSE <<".">> \o FracChars(a % Pow10(v.e), v.e))
  IN IF v.m < 0 THEN <<"-">> \o body ELSE body

\* String(v) and v.toString() on a value that is not null or undefined
ToStringChars(v) ==
  CASE v.t = "undef" -> <<"u", "n", "d", "e", "f", "i", "n", "e", "d">>
    [] v.t = "null" -> <<"n", "u", "l", "l">>
    [] v.t = "bool" -> IF v.m = 1 THEN <<"t", "r", "u", "e">> ELSE <<"f", "a", "l", "s", "e">>
    [] v.t = "num" -> NumberToChars(v)
    [] v.t = "nan" -> <<"N", "a", "N">>
    [] v.t = "str" -> v.s

\* a < b of the language: two strings by code units, anything else as Numbers
Lt(a, b) ==
  IF a.t = "str" /\ b.t = "str" THEN StrLt(a.s, b.s)
  ELSE NumLt(ToNumber(a), ToNumber(b))
Gt(a, b) == Lt(b, a)

\* a === b (NaN equals nothing)
StrictEq(a, b) == a.t # "nan" /\ a = b

\* -Infinity, which only Math.max of no argument yields: the model holds it
\* in a range filter and never computes with it
NegInfinity == [t |-> "-inf", m |-> 0, e |-> 0, s |-> <<>>]

\* Math.max(...xs): -Infinity for no argument, NaN as soon as one element
\* converts to NaN
RECURSIVE MathMax(_)
MathMax(xs) ==
  LET h == ToNumber(Head(xs))
      r == MathMax(Tail(xs))
  IN IF Len(xs) = 0 THEN NegInfinity
     ELSE IF Len(xs) = 1 THEN h
     ELSE IF h.t = "nan" \/ r.t = "nan" THEN NaN
     ELSE IF NumLt(h, r) THEN r ELSE h

\* ------------------------------------------------------------------------
\* Dates. A Date is its time value in hours since the epoch (a Number), or
\* NaN for an Invalid Date. tz is local time minus UTC in hours, taken as
\* fixed over the year (no daylight saving change).
\* ------------------------------------------------------------------------
HoursPerDay == 24

\* days from 1970-01-01 to the civil date y-mo-d (mo in 1..12)
DaysFromCivil(y, mo, d) ==
  LET yy == IF mo <= 2 THEN y - 1 ELSE y
      era == yy \div 400
      yoe == yy - era * 400
      doy == (153 * (IF mo > 2 THEN mo - 3 ELSE mo + 9) + 2) \div 5 + d - 1
      doe == yoe * 365 + yoe \div 4 - yoe \div 100 + doy
  IN era * 146097 + doe - 719468

\* the civil date [y, mo, d] of a day number
CivilFromDays(z0) ==
  LET z == z0 + 719468
      era == z \div 146097
      doe == z - era * 146097
      yoe == (doe - doe \div 1460 + doe \div 36524 - doe \div 146096) \div 365
      doy == doe - (365 * yoe + yoe \div 4 - yoe \div 100)
      mp == (5 * doy + 2) \div 153
      mo == IF mp < 10 THEN mp + 3 ELSE mp - 9
  IN [y |-> yoe + era * 400 + (IF mo <= 2 THEN 1 ELSE 0),
      mo |-> mo,
      d |-> doy - (153 * mp + 2) \div 5 + 1]

\* new Date(year, monthIndex, day): local midnight; a month or a day out of
\* range rolls over into the following months; years 0..99 mean 1900..1999;
\* NaN in any argument gives an Invalid Date
NewDateLocal(year, monthIndex, day, tz) ==
  IF ~IsNum(year) \/ ~IsNum(monthIndex) \/ ~IsNum(day) THEN NaN
  ELSE LET yr == IF 0 <= year.m /\ year.m <= 99 THEN 1900 + year.m ELSE year.m
           ym == yr + monthIndex.m \div 12
           mn == monthIndex.m % 12
       IN Num((DaysFromCivil(ym, mn + 1, 1) + day.m - 1) * HoursPerDay - tz)

DaysInMonth(y, mo) == DaysFromCivil(IF mo = 12 THEN y + 1 ELSE y, IF mo = 12 THEN 1 ELSE mo + 1, 1)
                      - DaysFromCivil(y, mo, 1)

AllDigits(str) == \A i \in 1..Len(str) : IsDigit(str[i])

\* new Date("YYYY-MM-DD"): a date-only form is UTC midnight; the empty
\* string of a cleared date input, or any other shape, is an Invalid Date
NewDateISO(str) ==
  LET parts == split(str, "-")
      y == DigitsVal(parts[1])
      mo == DigitsVal(parts[2])
      d == DigitsVal(parts[3])
  IN IF Len(parts) = 3 /\ Len(parts[1]) = 4 /\ Len(parts[2]) = 2 /\ Len(parts[3]) = 2
        /\ AllDigits(parts[1]) /\ AllDigits(parts[2]) /\ AllDigits(parts[3])
        /\ mo \in 1..12 /\ d >= 1 /\ d <= DaysInMonth(y, mo)
     THEN Num(DaysFromCivil(y, mo, d) * HoursPerDay)
     ELSE NaN

RECURSIVE PadChars(_, _)
PadChars(n, width) ==
  IF width = 0 THEN <<>> ELSE PadChars(n \div 10, width - 1) \o <<Digits[(n % 10) + 1]>>

\* date.toISOString().split('T')[0] of the instant at UTC hour h
ISODateOfHours(h) ==
  LET c == CivilFromDays(h \div HoursPerDay)
  IN PadChars(c.y, 4) \o <<"-">> \o PadChars(c.mo, 2) \o <<"-">> \o PadChars(c.d, 2)

\* ------------------------------------------------------------------------
\* The filter predicates of filteredDeals, one operator per predicate, each
\* TRUE when the predicate lets the deal through
\* ------------------------------------------------------------------------
bROKER == <<"b", "r", "o", "k", "e", "r">>
tRUE == <<"T", "R", "U", "E">>

\* Array.prototype.includes (SameValueZero; no NaN is searched for here)
ArrayIncludes(arr, v) == \E i \in 1..Len(arr) : arr[i] = v

\* arr.filter(x => x !== v)
RECURSIVE Without(_, _)
Without(arr, v) ==
  IF arr = <<>> THEN <<>>
  ELSE (IF Head(arr) # v THEN <<Head(arr)>> ELSE <<>>) \o Without(Tail(arr), v)

\* revenue, EBITDA and pursuits: excluded when value < min or value > max
RangePass(v, range) == ~(Lt(v, range[1]) \/ Gt(v, range[2]))

\* a variant of CategoryPass that compares text without regard to case
CategoryPassIgnoringCase(v, allowed) ==
  ~(Len(allowed) > 0
    /\ ~\E k \in 1..Len(allowed) :
           toLowerCase(ToStringChars(allowed[k])) = toLowerCase(ToStringChars(v)))

\* vertical, activity, region, state: an empty list restricts nothing
CategoryPass(v, allowed) == ~(Len(allowed) > 0 /\ ~ArrayIncludes(allowed, v))

\* a variant of BrokerPass that compares the owner without folding the case
BrokerPassCaseSensitive(deal, f) ==
  ~(f.includeBrokers = FALSE
    /\ Truthy(deal["Account Owner"])
    /\ ToStringChars(deal["Account Owner"]) = bROKER)

\* the broker filter
BrokerPass(deal, f) ==
  ~(f.includeBrokers = FALSE
    /\ Truthy(deal["Account Owner"])
    /\ toLowerCase(ToStringChars(deal["Account Owner"])) = bROKER)

\* a variant of FlagEnabled in which the string "TRUE" is not recognised
FlagEnabledNoTrueString(v) ==
  StrictEq(v, Num(1)) \/ StrictEq(v, Str(<<"1">>)) \/ StrictEq(v, Bool(TRUE))

\* smartshareEnabled / inboundEnabled of a raw flag value
FlagEnabled(v) ==
  \/ StrictEq(v, Num(1))
  \/ StrictEq(v, Str(<<"1">>))
  \/ StrictEq(v, Bool(TRUE))
  \/ (v.t = "str" /\ toUpperCase(v.s) = tRUE)

\* a variant of FlagsPass in which the two flag filters always combine with AND
FlagsPassNoCoupling(deal, f) ==
  /\ (f.includeSmartshareEnabled # Null =>
        Bool(FlagEnabled(deal["SmartShare Enabled?"])) = f.includeSmartshareEnabled)
  /\ (f.includeInboundInquiryEnabled # Null =>
        Bool(FlagEnabled(deal["Inbound Inquiry Enabled?"])) = f.includeInboundInquiryEnabled)

FlagsPass(deal, f) ==
  LET smartshareEnabled == FlagEnabled(deal["SmartShare Enabled?"])
      inboundEnabled == FlagEnabled(deal["Inbound Inquiry Enabled?"])
  IN IF f.includeSmartshareEnabled = Bool(TRUE) /\ f.includeInboundInquiryEnabled = Bool(TRUE)
     THEN ~(~smartshareEnabled /\ ~inboundEnabled)
     ELSE /\ ~(f.includeSmartshareEnabled # Null
               /\ Bool(smartshareEnabled) # f.includeSmartshareEnabled)
          /\ ~(f.includeInboundInquiryEnabled # Null
               /\ Bool(inboundEnabled) # f.includeInboundInquiryEnabled)

\* deal['Deal Intent Status'] || deal['Deal Intent'] || ''
StatusField(deal) == Or(deal["Deal Intent Status"], Or(deal["Deal Intent"], Str(<<>>)))

\* a variant of StatusMatches that compares without folding the case
StatusMatchesCaseSensitive(deal, s) ==
  s.t = "str" /\ ToStringChars(StatusField(deal)) = s.s

\* the callback of dealIntentStatuses.some on the element s, a string
StatusMatches(deal, s) ==
  s.t = "str" /\ toLowerCase(ToStringChars(StatusField(deal))) = toLowerCase(s.s)

\* some() calls s.toLowerCase() on an element that is no string before any
\* element has matched: a TypeError
StatusThrows(deal, f) ==
  \E i \in 1..Len(f.dealIntentStatuses) :
    /\ f.dealIntentStatuses[i].t # "str"
    /\ \A j \in 1..(i - 1) : ~StatusMatches(deal, f.dealIntentStatuses[j])

\* the status filter, when it does not throw
StatusPass(deal, f) ==
  ~(Len(f.dealIntentStatuses) > 0
    /\ ~\E i \in 1..Len(f.dealIntentStatuses) : StatusMatches(deal, f.dealIntentStatuses[i]))

\* deal['Deal Intent'] || ''
TypeField(deal) == Or(deal["Deal Intent"], Str(<<>>))

\* the callback of dealIntentTypes.some on the element t, a string
TypeMatches(deal, t) ==
  t.t = "str" /\ includes(toLowerCase(ToStringChars(TypeField(deal))), toLowerCase(t.s))

TypeThrows(deal, f) ==
  \E i \in 1..Len(f.dealIntentTypes) :
    /\ f.dealIntentTypes[i].t # "str"
    /\ \A j \in 1..(i - 1) : ~TypeMatches(deal, f.dealIntentTypes[j])

\* the type filter, when it does not throw
TypePass(deal, f) ==
  ~(Len(f.dealIntentTypes) > 0
    /\ ~\E i \in 1..Len(f.dealIntentTypes) : TypeMatches(deal, f.dealIntentTypes[i]))

\* the Date the filter builds from the three segments of an M/D/YYYY string
DealDate(dateParts, tz) ==
  LET mon == parseInt(dateParts[1])
  IN NewDateLocal(parseInt(dateParts[3]),
                  IF IsNum(mon) THEN Num(mon.m - 1) ELSE NaN,
                  parseInt(dateParts[2]), tz)

\* the date filter; a dateStr that is no string has no split method, the
\* TypeError is caught and the deal is kept
DatePass(deal, f, tz) ==
  LET dateStr == Or(deal["Market Date"], deal["Market Date (Date)"])
  IN IF ~Truthy(dateStr) THEN TRUE
     ELSE IF dateStr.t # "str" THEN TRUE
     ELSE LET dateParts == split(dateStr.s, "/")
          IN IF Len(dateParts) # 3 THEN TRUE
             ELSE LET dealDate == DealDate(dateParts, tz)
                      startDate == NewDateISO(f.dateRange[1])
                      endDate == NewDateISO(f.dateRange[2])
                  IN IF ~IsNum(dealDate) THEN TRUE
                     ELSE ~(NumLt(dealDate, startDate) \/ NumGt(dealDate, endDate))

\* the callback of deals.filter in the full dashboard
DealPasses(deal, f, tz) ==
  /\ RangePass(deal["Revenue"], f.revenueRange)
  /\ RangePass(deal["EBITDA"], f.ebitdaRange)
  /\ RangePass(deal["Total Pursuits"], f.pursuitsRange)
  /\ CategoryPass(deal["Primary Supply Vertical"], f.verticals)
  /\ CategoryPass(deal["Primary Supply Activity"], f.activities)
  /\ CategoryPass(deal["Region"], f.regions)
  /\ CategoryPass(deal["State/Province"], f.states)
  /\ BrokerPass(deal, f)
  /\ FlagsPass(deal, f)
  /\ StatusPass(deal, f)
  /\ TypePass(deal, f)
  /\ DatePass(deal, f, tz)

\* the callback throws on deal: the checks before the status filter let the
\* record through and the status filter or, after it, the type filter throws
\* (the TypeError of the date filter is caught there)
DealThrows(deal, f, tz) ==
  /\ RangePass(deal["Revenue"], f.revenueRange)
  /\ RangePass(deal["EBITDA"], f.ebitdaRange)
  /\ RangePass(deal["Total Pursuits"], f.pursuitsRange)
  /\ CategoryPass(deal["Primary Supply Vertical"], f.verticals)
  /\ CategoryPass(deal["Primary Supply Activity"], f.activities)
  /\ CategoryPass(deal["Region"], f.regions)
  /\ CategoryPass(deal["State/Province"], f.states)
  /\ BrokerPass(deal, f)
  /\ FlagsPass(deal, f)
  /\ \/ StatusThrows(deal, f)
     \/ (StatusPass(deal, f) /\ TypeThrows(deal, f))

\* deals.filter throws: the callback throws on some record
FilterThrows(ds, f, tz) == \E i \in 1..Len(ds) : DealThrows(ds[i], f, tz)

\* a filter that returns the elements that pass with the last one first
RECURSIVE ArrayFilterNewestFirst(_, _, _)
ArrayFilterNewestFirst(ds, f, tz) ==
  IF ds = <<>> THEN <<>>
  ELSE ArrayFilterNewestFirst(Tail(ds), f, tz)
       \o (IF DealPasses(Head(ds), f, tz) THEN <<Head(ds)>> ELSE <<>>)

\* Array.prototype.filter: the elements that pass, in their order
RECURSIVE ArrayFilter(_, _, _)
ArrayFilter(ds, f, tz) ==
  IF ds = <<>> THEN <<>>
  ELSE (IF DealPasses(Head(ds), f, tz) THEN <<Head(ds)>> ELSE <<>>)
       \o ArrayFilter(Tail(ds), f, tz)

FilterDeals(ds, f, tz) == IF Len(ds) = 0 THEN <<>> ELSE ArrayFilter(ds, f, tz)

\* the callback of deals.filter in the simplified dashboard
SimpleDealPasses(d, f) ==
  /\ ~(Len(f.verticals) > 0 /\ ~ArrayIncludes(f.verticals, d["Primary Supply Vertical"]))
  /\ ~(Lt(d["EBITDA"], f.ebitdaRange[1]) \/ Gt(d["EBITDA"], f.ebitdaRange[2]))
  /\ (f.includeSmartshareEnabled # Null =>
        LET val == d["SmartShare Enabled?"]
            enabled == StrictEq(val, Num(1)) \/ StrictEq(val, Str(<<"1">>))
                       \/ StrictEq(val, Bool(TRUE))
        IN f.includeSmartshareEnabled = Bool(enabled))

RECURSIVE SimpleFilterDeals(_, _)
SimpleFilterDeals(ds, f) ==
  IF ds = <<>> THEN <<>>
  ELSE (IF SimpleDealPasses(Head(ds), f) THEN <<Head(ds)>> ELSE <<>>)
       \o SimpleFilterDeals(Tail(ds), f)

\* ------------------------------------------------------------------------
\* Sorting: the comparator of sortedDeals and Array.prototype.sort
\* ------------------------------------------------------------------------
\* the column names of the model's datasets
Columns == {"ID",
            "Revenue",
            "EBITDA",
            "Total Pursuits",
            "Primary Supply Vertical",
            "Primary Supply Activity",
            "Region",
            "State/Province",
            "Account Owner",
            "SmartShare Enabled?",
            "Inbound Inquiry Enabled?",
            "Deal Intent Status",
            "Deal Intent",
            "Market Date",
            "Market Date (Date)",
            "EBITDA Margin",
            "Sellside Project: ID",
            "Deal ID"}

\* the characters of a column name
KeyChars(key) ==
  CASE key = "ID" -> <<"I", "D">>
    [] key = "Revenue" -> <<"R", "e", "v", "e", "n", "u", "e">>
    [] key = "EBITDA" -> <<"E", "B", "I", "T", "D", "A">>
    [] key = "Total Pursuits" -> <<"T", "o", "t", "a", "l", " ", "P", "u", "r", "s", "u", "i", "t", "s">>
    [] key = "EBITDA Margin" -> <<"E", "B", "I", "T", "D", "A", " ", "M", "a", "r", "g", "i", "n">>
    [] key = "Primary Supply Vertical" -> <<"P", "r", "i", "m", "a", "r", "y", " ", "S", "u", "p", "p", "l", "y", " ", "V", "e", "r", "t", "i", "c", "a", "l">>
    [] key = "Primary Supply Activity" -> <<"P", "r", "i", "m", "a", "r", "y", " ", "S", "u", "p", "p", "l", "y", " ", "A", "c", "t", "i", "v", "i", "t", "y">>
    [] key = "Region" -> <<"R", "e", "g", "i", "o", "n">>
    [] key = "State/Province" -> <<"S", "t", "a", "t", "e", "/", "P", "r", "o", "v", "i", "n", "c", "e">>
    [] key = "Account Owner" -> <<"A", "c", "c", "o", "u", "n", "t", " ", "O", "w", "n", "e", "r">>
    [] key = "SmartShare Enabled?" -> <<"S", "m", "a", "r", "t", "S", "h", "a", "r", "e", " ", "E", "n", "a", "b", "l", "e", "d", "?">>
    [] key = "Inbound Inquiry Enabled?" -> <<"I", "n", "b", "o", "u", "n", "d", " ", "I", "n", "q", "u", "i", "r", "y", " ", "E", "n", "a", "b", "l", "e", "d", "?">>
    [] key = "Deal Intent Status" -> <<"D", "e", "a", "l", " ", "I", "n", "t", "e", "n", "t", " ", "S", "t", "a", "t", "u", "s">>
    [] key = "Deal Intent" -> <<"D", "e", "a", "l", " ", "I", "n", "t", "e", "n", "t">>
    [] key = "Market Date" -> <<"M", "a", "r", "k", "e", "t", " ", "D", "a", "t", "e">>
    [] key = "Market Date (Date)" -> <<"M", "a", "r", "k", "e", "t", " ", "D", "a", "t", "e", " ", "(", "D", "a", "t", "e", ")">>
    [] key = "Sellside Project: ID" -> <<"S", "e", "l", "l", "s", "i", "d", "e", " ", "P", "r", "o", "j", "e", "c", "t", ":", " ", "I", "D">>
    [] key = "Deal ID" -> <<"D", "e", "a", "l", " ", "I", "D">>

dATE == <<"d", "a", "t", "e">>

\* str.replace(/[^0-9.-]/g, '')
RECURSIVE StripNonNumeric(_)
StripNonNumeric(str) ==
  IF str = <<>> THEN <<>>
  ELSE (IF IsDigit(Head(str)) \/ Head(str) = "." \/ Head(str) = "-"
        THEN <<Head(str)>> ELSE <<>>) \o StripNonNumeric(Tail(str))

\* the Date the comparator builds from the segments of a value
SortDate(parts, tz) == DealDate(parts, tz)

\* a comparator that orders ascending whatever the direction
CompareIgnoringDirection(a, b, cfg, tz) ==
  LET key == cfg.key
      valA == a[key]
      valB == b[key]
      partsA == split(ToStringChars(valA), "/")
      partsB == split(ToStringChars(valB), "/")
      byDate == /\ includes(toLowerCase(KeyChars(key)), dATE)
                /\ Truthy(valA) /\ Truthy(valB)
                /\ Len(partsA) = 3 /\ Len(partsB) = 3
                /\ IsNum(SortDate(partsA, tz)) /\ IsNum(SortDate(partsB, tz))
      numA == parseFloat(StripNonNumeric(ToStringChars(valA)))
      numB == parseFloat(StripNonNumeric(ToStringChars(valB)))
  IN IF key = "" THEN 0
     ELSE IF byDate THEN NumSign(SortDate(partsA, tz), SortDate(partsB, tz))
     ELSE IF IsNum(numA) /\ IsNum(numB) THEN NumSign(numA, numB)
     ELSE IF Lt(valA, valB) THEN -1
     ELSE IF Gt(valA, valB) THEN 1
     ELSE 0

\* a comparator that tries the numeric comparison before the date comparison
CompareNumericFirst(a, b, cfg, tz) ==
  LET key == cfg.key
      asc == cfg.direction = "asc"
      valA == a[key]
      valB == b[key]
      partsA == split(ToStringChars(valA), "/")
      partsB == split(ToStringChars(valB), "/")
      byDate == /\ includes(toLowerCase(KeyChars(key)), dATE)
                /\ Truthy(valA) /\ Truthy(valB)
                /\ Len(partsA) = 3 /\ Len(partsB) = 3
                /\ IsNum(SortDate(partsA, tz)) /\ IsNum(SortDate(partsB, tz))
      numA == parseFloat(StripNonNumeric(ToStringChars(valA)))
      numB == parseFloat(StripNonNumeric(ToStringChars(valB)))
  IN IF key = "" THEN 0
     ELSE IF IsNum(numA) /\ IsNum(numB)
       THEN (IF asc THEN NumSign(numA, numB) ELSE NumSign(numB, numA))
     ELSE IF byDate
       THEN (IF asc THEN NumSign(SortDate(partsA, tz), SortDate(partsB, tz))
                    ELSE NumSign(SortDate(partsB, tz), SortDate(partsA, tz)))
     ELSE IF Lt(valA, valB) THEN (IF asc THEN -1 ELSE 1)
     ELSE IF Gt(valA, valB) THEN (IF asc THEN 1 ELSE -1)
     ELSE 0

\* the comparator: the sign of what the callback returns for (a, b)
Compare(a, b, cfg, tz) ==
  LET key == cfg.key
      asc == cfg.direction = "asc"
      valA == a[key]
      valB == b[key]
      partsA == split(ToStringChars(valA), "/")
      partsB == split(ToStringChars(valB), "/")
      byDate == /\ includes(toLowerCase(KeyChars(key)), dATE)
                /\ Truthy(valA) /\ Truthy(valB)
                /\ Len(partsA) = 3 /\ Len(partsB) = 3
                /\ IsNum(SortDate(partsA, tz)) /\ IsNum(SortDate(partsB, tz))
      numA == parseFloat(StripNonNumeric(ToStringChars(valA)))
      numB == parseFloat(StripNonNumeric(ToStringChars(valB)))
  IN IF key = "" THEN 0
     ELSE IF byDate
       THEN (IF asc THEN NumSign(SortDate(partsA, tz), SortDate(partsB, tz))
                    ELSE NumSign(SortDate(partsB, tz), SortDate(partsA, tz)))
     ELSE IF IsNum(numA) /\ IsNum(numB)
       THEN (IF asc THEN NumSign(numA, numB) ELSE NumSign(numB, numA))
     ELSE IF Lt(valA, valB) THEN (IF asc THEN -1 ELSE 1)
     ELSE IF Gt(valA, valB) THEN (IF asc THEN 1 ELSE -1)
     ELSE 0

Perms(n) == {p \in [1..n -> 1..n] : \A i, j \in 1..n : i # j => p[i] # p[j]}

\* the comparator's results over the elements of fd, row i column j being
\* the sign of compare(fd[i], fd[j]); a tuple of tuples
CompareSigns(fd, cfg, tz) ==
  <<>> \o [i \in 1..Len(fd) |->
             <<>> \o [j \in 1..Len(fd) |-> Compare(fd[i], fd[j], cfg, tz)]]

\* the results c are those of a consistent comparator, as the language
\* requires of the callback of Array.prototype.sort
ConsistentSigns(c) ==
  LET n == Len(c)
  IN /\ \A i \in 1..n : c[i][i] = 0
     /\ \A i, j \in 1..n :
          (c[i][j] = 0 => c[j][i] = 0) /\ (c[i][j] < 0 <=> c[j][i] > 0)
     /\ \A i, j, k \in 1..n :
          /\ (c[i][j] = 0 /\ c[j][k] = 0) => c[i][k] = 0
          /\ (c[i][j] < 0 /\ c[j][k] < 0) => c[i][k] < 0
          /\ (c[i][j] > 0 /\ c[j][k] > 0) => c[i][k] > 0

ConsistentComparator(fd, cfg, tz) == ConsistentSigns(CompareSigns(fd, cfg, tz))

\* a variant of StablySorted that puts equal elements in reverse order
SortedTiesReversed(c, p) ==
  \A k, l \in 1..Len(c) :
    k < l => \/ c[p[k]][p[l]] < 0
             \/ (c[p[k]][p[l]] = 0 /\ p[k] > p[l])

\* p lists the indices in sorted order, equal elements in their order
StablySorted(c, p) ==
  \A k, l \in 1..Len(c) :
    k < l => \/ c[p[k]][p[l]] < 0
             \/ (c[p[k]][p[l]] = 0 /\ p[k] < p[l])

\* the orders Array.prototype.sort may leave a copy of fd in, as permutations
\* of its indices: with a consistent comparator the one stable sorted order,
\* otherwise the order is implementation-defined (any permutation)
SortOrders(fd, cfg, tz) ==
  LET c == CompareSigns(fd, cfg, tz)
      consistent == ConsistentSigns(c)
  IN {q \in Perms(Len(fd)) : consistent => StablySorted(c, q)}

Permuted(seq, p) == [k \in 1..Len(seq) |-> seq[p[k]]]

\* the values sortedDeals may take for a filtered set and a sort configuration
SortedDeals(fd, cfg, tz) == {Permuted(fd, p) : p \in SortOrders(fd, cfg, tz)}

\* ------------------------------------------------------------------------
\* Aggregation: verticalChartData / activityChartData
\* ------------------------------------------------------------------------
\* the properties a plain object inherits from Object.prototype: functions,
\* and the accessor __proto__ (the legacy __defineGetter__ family is left out)
InheritedFunctions ==
  {<<"c", "o", "n", "s", "t", "r", "u", "c", "t", "o", "r">>,
   <<"t", "o", "S", "t", "r", "i", "n", "g">>,
   <<"t", "o", "L", "o", "c", "a", "l", "e", "S", "t", "r", "i", "n", "g">>,
   <<"v", "a", "l", "u", "e", "O", "f">>,
   <<"h", "a", "s", "O", "w", "n", "P", "r", "o", "p", "e", "r", "t", "y">>,
   <<"i", "s", "P", "r", "o", "t", "o", "t", "y", "p", "e", "O", "f">>,
   <<"p", "r", "o", "p", "e", "r", "t", "y", "I", "s", "E", "n", "u", "m", "e", "r", "a", "b", "l", "e">>}
ProtoAccessor == <<"_", "_", "p", "r", "o", "t", "o", "_", "_">>

\* the property keys of the counts object in the order of their first use;
\* a value that is not truthy is skipped
RECURSIVE CountKeys(_, _)
CountKeys(fd, field) ==
  IF fd = <<>> THEN <<>>
  ELSE LET before == CountKeys(SubSeq(fd, 1, Len(fd) - 1), field)
           v == fd[Len(fd)][field]
       IN IF Truthy(v) /\ ToStringChars(v) # ProtoAccessor /\ ~ArrayIncludes(before, ToStringChars(v))
          THEN Append(before, ToStringChars(v)) ELSE before

\* counts[key] after the forEach
CountOf(fd, field, key) ==
  Cardinality({i \in 1..Len(fd) : Truthy(fd[i][field]) /\ ToStringChars(fd[i][field]) = key})

\* a canonical array index ("0", "7", "12"): Object.entries lists such keys
\* first, in ascending numeric order, then the others in insertion order
IsIndexKey(key) ==
  key # <<>> /\ AllDigits(key) /\ (Len(key) > 1 => Head(key) # "0") /\ Len(key) <= 9

\* the index keys of keys in ascending numeric order
RECURSIVE IndexKeysAscending(_)
IndexKeysAscending(keys) ==
  LET idx == {i \in 1..Len(keys) : IsIndexKey(keys[i])}
      lo == CHOOSE i \in idx : \A j \in idx : DigitsVal(keys[i]) <= DigitsVal(keys[j])
  IN IF idx = {} THEN <<>>
     ELSE <<keys[lo]>> \o IndexKeysAscending(Without(keys, keys[lo]))

RECURSIVE OtherKeys(_)
OtherKeys(keys) ==
  IF keys = <<>> THEN <<>>
  ELSE (IF IsIndexKey(Head(keys)) THEN <<>> ELSE <<Head(keys)>>) \o OtherKeys(Tail(keys))

\* the keys in the order of Object.entries(counts)
EntryKeys(fd, field) ==
  IndexKeysAscending(CountKeys(fd, field)) \o OtherKeys(CountKeys(fd, field))

\* counts[key] of an own property after the forEach: a number, or for a key
\* that names an inherited function the text of that function (the same
\* text is written for all of them here) followed by one "1" per record
CountValue(fd, field, key) ==
  IF key \in InheritedFunctions
  THEN Str(<<"f", "u", "n", "c", "t", "i", "o", "n">> \o [k \in 1..CountOf(fd, field, key) |-> "1"])
  ELSE Num(CountOf(fd, field, key))

\* Object.entries(counts).map(...): one entry per key with the name, the
\* value, and the percentage value / filteredDeals.length * 100 kept exact
\* as the fraction num / den; 0 / 0 stands for NaN, what a value that is no
\* number gives
ChartEntries(fd, field) ==
  LET keys == EntryKeys(fd, field)
  IN [k \in 1..Len(keys) |->
        [name |-> keys[k],
         value |-> CountValue(fd, field, keys[k]),
         percentage |-> IF IsNum(CountValue(fd, field, keys[k]))
                        THEN [num |-> CountOf(fd, field, keys[k]) * 100, den |-> Len(fd)]
                        ELSE [num |-> 0, den |-> 0]]]

\* the results of (a, b) => b.value - a.value over data: NaN, what a value
\* that is no number gives, is taken by sort as 0
ValueSigns(data) ==
  <<>> \o [i \in 1..Len(data) |->
             <<>> \o [j \in 1..Len(data) |->
                        IF IsNum(data[i].value) /\ IsNum(data[j].value)
                        THEN NumSign(data[j].value, data[i].value) ELSE 0]]

\* the orders data.sort((a, b) => b.value - a.value) may leave data in:
\* descending values with equal values in their order, or any order when
\* the results are not those of a consistent comparator
ValueOrders(data) ==
  LET c == ValueSigns(data)
      consistent == ConsistentSigns(c)
  IN {q \in Perms(Len(data)) : consistent => StablySorted(c, q)}

\* chart data cut down to its first group
ChartDataTopOnly(fd, field) ==
  IF Len(fd) = 0 THEN {<<>>}
  ELSE {SubSeq(Permuted(ChartEntries(fd, field), p), 1, IF Len(p) = 0 THEN 0 ELSE 1) :
          p \in ValueOrders(ChartEntries(fd, field))}

\* the values verticalChartData / activityChartData of the full dashboard
\* may take
ChartData(fd, field) ==
  IF Len(fd) = 0 THEN {<<>>}
  ELSE {Permuted(ChartEntries(fd, field), p) : p \in ValueOrders(ChartEntries(fd, field))}

\* verticalChartData of the simplified dashboard: no guard, no sort
SimpleChartData(fd, field) == ChartEntries(fd, field)

\* ------------------------------------------------------------------------
\* Summary statistics: summaryStats
\* ------------------------------------------------------------------------
\* a + b on Numbers: NaN as soon as one side is NaN
NumAdd(a, b) ==
  IF ~IsNum(a) \/ ~IsNum(b) THEN NaN
  ELSE LET e == IF a.e > b.e THEN a.e ELSE b.e
       IN Dec(a.m * Pow10(e - a.e) + b.m * Pow10(e - b.e), e)

\* a + b: the concatenation of the texts as soon as one side is a string,
\* else the sum of the numbers the sides convert to
JsAdd(a, b) ==
  IF a.t = "str" \/ b.t = "str" THEN Str(ToStringChars(a) \o ToStringChars(b))
  ELSE NumAdd(ToNumber(a), ToNumber(b))

\* fd.reduce((sum, deal) => sum + (deal[field] || 0), 0)
RECURSIVE ReduceSum(_, _)
ReduceSum(fd, field) ==
  IF fd = <<>> THEN Num(0)
  ELSE JsAdd(ReduceSum(SubSeq(fd, 1, Len(fd) - 1), field), Or(fd[Len(fd)][field], Num(0)))

\* total / n kept exact as the fraction num / den, where num is the number
\* the total converts to, or NaN
Average(total, n) == [num |-> ToNumber(total), den |-> n]

\* summaryStats with the total of Revenue and EBITDA put to zero
SummaryStatsZeroTotals(fd) ==
  [totalDeals |-> Len(fd),
   totalRevenue |-> Num(0), avgRevenue |-> Average(Num(0), Len(fd)),
   totalEBITDA |-> Num(0), avgEBITDA |-> Average(Num(0), Len(fd))]

\* summaryStats of the full dashboard: null for no filtered record
SummaryStats(fd) ==
  IF Len(fd) = 0 THEN Null
  ELSE [totalDeals |-> Len(fd),
        totalRevenue |-> ReduceSum(fd, "Revenue"),
        avgRevenue |-> Average(ReduceSum(fd, "Revenue"), Len(fd)),
        totalEBITDA |-> ReduceSum(fd, "EBITDA"),
        avgEBITDA |-> Average(ReduceSum(fd, "EBITDA"), Len(fd))]

\* summaryStats of the simplified dashboard
SimpleSummaryStats(fd) ==
  IF Len(fd) = 0 THEN Null
  ELSE [totalDeals |-> Len(fd),
        avgEBITDA |-> Average(ReduceSum(fd, "EBITDA"), Len(fd))]

\* ------------------------------------------------------------------------
\* State of the dashboard component
\* ------------------------------------------------------------------------
VARIABLES
  deals,       \* the dataset: a sequence of records, column name -> value
  filters,     \* the filter specification
  sortConfig,  \* [key, direction]
  tz,          \* the browser's time zone: local time minus UTC, in hours
  simpleFilters, \* the filter specification of the simplified dashboard
  columns,     \* the header names of the dataset
  filterOptions, \* the options the filter panel lists
  loading,     \* a fetch has started and none has ended since
  error,       \* the message of the last failed fetch, "" for none
  lastRefresh, \* the time of the last successful fetch, or null
  defaultApplied, \* defaultAppliedRef.current
  fetches,     \* per fetchData invocation the URL it waits for, 0 for none
  selectedDeals \* the records whose checkbox is ticked, in the order ticked

\* what an ingestion writes besides deals, filters and sortConfig
ingestion == <<columns, filterOptions, loading, error, lastRefresh, defaultApplied, fetches>>

vars == <<deals, filters, sortConfig, tz, simpleFilters, columns, filterOptions, loading,
          error, lastRefresh, defaultApplied, fetches, selectedDeals>>

DefaultEbitdaMin == 2000000
DefaultWindowDays == 14

\* Date.now() in hours since the epoch: 10 January 2024, 15:00 UTC
Now == DaysFromCivil(2024, 1, 10) * HoursPerDay + 15

aCTIVE == <<"a", "c", "t", "i", "v", "e">>
sELL == <<"s", "e", "l", "l">>

\* the defaults of useState for filters
InitialFilters ==
  [revenueRange |-> <<Num(0), Num(0)>>,
   ebitdaRange |-> <<Num(DefaultEbitdaMin), Num(0)>>,
   verticals |-> <<>>,
   activities |-> <<>>,
   regions |-> <<>>,
   states |-> <<>>,
   dateRange |-> <<ISODateOfHours(Now - DefaultWindowDays * HoursPerDay), ISODateOfHours(Now)>>,
   pursuitsRange |-> <<Num(0), Num(0)>>,
   includeBrokers |-> FALSE,
   includeSmartshareEnabled |-> Bool(TRUE),
   includeInboundInquiryEnabled |-> Bool(TRUE),
   dealIntentStatuses |-> <<Str(aCTIVE)>>,
   dealIntentTypes |-> <<Str(sELL)>>]

\* the defaults of useState for filters in the simplified dashboard
SimpleEbitdaMax == 40000000
SimpleInitialFilters ==
  [verticals |-> <<>>,
   ebitdaRange |-> <<Num(0), Num(SimpleEbitdaMax)>>,
   includeSmartshareEnabled |-> Null]

\* Math.max(...dealsData.map(d => d[field] || 0))
MaxOf(dealsData, field) ==
  MathMax([i \in 1..Len(dealsData) |-> Or(dealsData[i][field], Num(0))])

\* a variant of IngestFilters that sets the default ranges on every ingestion
IngestFiltersAlwaysDefault(prev, dealsData, applied) ==
  [prev EXCEPT !.revenueRange = <<Num(0), MaxOf(dealsData, "Revenue")>>,
               !.ebitdaRange = <<Num(DefaultEbitdaMin), MaxOf(dealsData, "EBITDA")>>,
               !.pursuitsRange = <<Num(0), MaxOf(dealsData, "Total Pursuits")>>]

\* the setFilters call of a successful ingestion: the first one sets the
\* default ranges, a later one keeps the lower bounds
IngestFilters(prev, dealsData, applied) ==
  LET maxRevenue == MaxOf(dealsData, "Revenue")
      maxEbitda == MaxOf(dealsData, "EBITDA")
      maxPursuits == MaxOf(dealsData, "Total Pursuits")
  IN IF ~applied
     THEN [prev EXCEPT !.revenueRange = <<Num(0), maxRevenue>>,
                       !.ebitdaRange = <<Num(DefaultEbitdaMin), maxEbitda>>,
                       !.pursuitsRange = <<Num(0), maxPursuits>>]
     ELSE [prev EXCEPT !.revenueRange = <<prev.revenueRange[1], maxRevenue>>,
                       !.ebitdaRange = <<prev.ebitdaRange[1], maxEbitda>>,
                       !.pursuitsRange = <<prev.pursuitsRange[1], maxPursuits>>]

\* [...new Set(dealsData.map(d => d[field]))].filter(Boolean)
RECURSIVE DistinctTruthy(_, _)
DistinctTruthy(dealsData, field) ==
  IF dealsData = <<>> THEN <<>>
  ELSE LET before == DistinctTruthy(SubSeq(dealsData, 1, Len(dealsData) - 1), field)
           v == dealsData[Len(dealsData)][field]
       IN IF Truthy(v) /\ ~ArrayIncludes(before, v) THEN Append(before, v) ELSE before

\* rendering throws (and React unmounts the component) when the filter does
renderThrows == FilterThrows(deals, filters, tz)

\* the derived views of the component (useMemo)
filteredDeals == FilterDeals(deals, filters, tz)
simpleFilteredDeals == SimpleFilterDeals(deals, simpleFilters)
simpleVerticalChartData == SimpleChartData(simpleFilteredDeals, "Primary Supply Vertical")
sortedDeals == SortedDeals(filteredDeals, sortConfig, tz)
verticalChartData == ChartData(filteredDeals, "Primary Supply Vertical")
activityChartData == ChartData(filteredDeals, "Primary Supply Activity")
summaryStats == SummaryStats(filteredDeals)
simpleSummaryStats == SimpleSummaryStats(simpleFilteredDeals)

\* ------------------------------------------------------------------------
\* Handlers
\* ------------------------------------------------------------------------
handleFilterChange(filterType, value) ==
  /\ ~renderThrows
  /\ filters' = [filters EXCEPT ![filterType] = value]
  /\ UNCHANGED <<deals, sortConfig, tz, simpleFilters, ingestion, selectedDeals>>

\* a variant of handleSort that alternates whatever column is clicked
handleSortAlternating(key) ==
  /\ ~renderThrows
  /\ sortConfig' = [key |-> key,
                    direction |-> IF sortConfig.direction = "asc" THEN "desc" ELSE "asc"]
  /\ UNCHANGED <<deals, filters, tz, simpleFilters, ingestion, selectedDeals>>

handleSort(key) ==
  /\ ~renderThrows
  /\ sortConfig' = [key |-> key,
                    direction |-> IF sortConfig.key = key /\ sortConfig.direction = "asc"
                                  THEN "desc" ELSE "asc"]
  /\ UNCHANGED <<deals, filters, tz, simpleFilters, ingestion, selectedDeals>>

\* resetFilters: the Reset Filters button
ResetValue ==
  [revenueRange |-> <<Num(0), MaxOf(deals, "Revenue")>>,
   ebitdaRange |-> <<Num(DefaultEbitdaMin), MaxOf(deals, "EBITDA")>>,
   pursuitsRange |-> <<Num(0), MaxOf(deals, "Total Pursuits")>>,
   verticals |-> <<>>,
   activities |-> <<>>,
   regions |-> <<>>,
   states |-> <<>>,
   dateRange |-> <<ISODateOfHours(Now - DefaultWindowDays * HoursPerDay), ISODateOfHours(Now)>>,
   includeBrokers |-> FALSE,
   includeSmartshareEnabled |-> Bool(TRUE),
   includeInboundInquiryEnabled |-> Bool(TRUE),
   dealIntentStatuses |-> <<Str(aCTIVE)>>,
   dealIntentTypes |-> <<Str(sELL)>>]

\* a variant of resetFilters that leaves the selection alone
resetFiltersKeepingSelection ==
  /\ ~loading
  /\ ~renderThrows
  /\ filters' = ResetValue
  /\ UNCHANGED <<deals, sortConfig, tz, simpleFilters, ingestion, selectedDeals>>

resetFilters ==
  /\ ~loading
  /\ ~renderThrows
  /\ filters' = ResetValue
  /\ selectedDeals' = <<>>
  /\ UNCHANGED <<deals, sortConfig, tz, simpleFilters, ingestion>>

\* deal["Sellside Project: ID"] || deal["ID"] || deal["Deal ID"]
ResolvedId(deal) == Or(Or(deal["Sellside Project: ID"], deal["ID"]), deal["Deal ID"])

\* prev.some(d => id(d) === dealId)
IsSelected(prev, dealId) ==
  \E i \in 1..Len(prev) : StrictEq(ResolvedId(prev[i]), dealId)

\* prev.filter(d => id(d) !== dealId)
RECURSIVE WithoutId(_, _)
WithoutId(prev, dealId) ==
  IF prev = <<>> THEN <<>>
  ELSE (IF StrictEq(ResolvedId(Head(prev)), dealId) THEN <<>> ELSE <<Head(prev)>>)
       \o WithoutId(Tail(prev), dealId)

\* a variant of toggleDealSelection that looks for the record, not for its
\* identifier
toggleDealSelectionByRecord(deal) ==
  /\ ~loading
  /\ ~renderThrows
  /\ selectedDeals' = IF \E i \in 1..Len(selectedDeals) : selectedDeals[i] = deal
                       THEN SelectSeq(selectedDeals, LAMBDA d : d # deal)
                       ELSE Append(selectedDeals, deal)
  /\ UNCHANGED <<deals, filters, sortConfig, tz, simpleFilters, ingestion>>

\* toggleDealSelection: the checkbox of a row of the table
toggleDealSelection(deal) ==
  /\ ~loading
  /\ ~renderThrows
  /\ selectedDeals' = IF IsSelected(selectedDeals, ResolvedId(deal))
                       THEN WithoutId(selectedDeals, ResolvedId(deal))
                       ELSE Append(selectedDeals, deal)
  /\ UNCHANGED <<deals, filters, sortConfig, tz, simpleFilters, ingestion>>

\* the Clear Selection button, shown while some record is selected
ClearSelection ==
  /\ ~loading
  /\ ~renderThrows
  /\ Len(selectedDeals) > 0
  /\ selectedDeals' = <<>>
  /\ UNCHANGED <<deals, filters, sortConfig, tz, simpleFilters, ingestion>>

\* the controls of the filter panel: each onChange builds the new value and
\* calls handleFilterChange

\* a range slider is bounded by the dataset maximum of its field (a maximum
\* that is NaN bounds nothing)
SliderAllows(field, v) ==
  LET mx == MaxOf(deals, field) IN ~IsNum(mx) \/ ~NumLt(mx, v)

RangeField(filterType) ==
  CASE filterType = "revenueRange" -> "Revenue"
    [] filterType = "ebitdaRange" -> "EBITDA"
    [] filterType = "pursuitsRange" -> "Total Pursuits"

\* the lower slider of a range: value is the control's string
SetRangeMin(filterType, value) ==
  LET v == IF filterType = "pursuitsRange" THEN parseInt(value)
           ELSE Dec(parseFloat(value).m * 1000000, parseFloat(value).e)
  IN /\ Len(deals) > 0
     /\ SliderAllows(RangeField(filterType), v)
     /\ handleFilterChange(filterType, <<v, filters[filterType][2]>>)

\* the upper slider of a range
SetRangeMax(filterType, value) ==
  LET v == IF filterType = "pursuitsRange" THEN parseInt(value)
           ELSE Dec(parseFloat(value).m * 1000000, parseFloat(value).e)
  IN /\ Len(deals) > 0
     /\ SliderAllows(RangeField(filterType), v)
     /\ handleFilterChange(filterType, <<filters[filterType][1], v>>)

OptionField(filterType) ==
  CASE filterType = "verticals" -> "Primary Supply Vertical"
    [] filterType = "activities" -> "Primary Supply Activity"
    [] filterType = "regions" -> "Region"
    [] filterType = "states" -> "State/Province"

\* a checkbox of a category list: checked appends the option, unchecked
\* removes it
ToggleOption(filterType, option) ==
  /\ ArrayIncludes(filterOptions[filterType], option)
  /\ handleFilterChange(filterType,
       IF ~ArrayIncludes(filters[filterType], option)
       THEN Append(filters[filterType], option)
       ELSE Without(filters[filterType], option))

\* filterOptions.dealIntentStatuses:
\* [...new Set(dealsData.map(d => d['Deal Intent Status'] || d['Deal Intent']))].filter(Boolean)
RECURSIVE StatusOptions(_)
StatusOptions(dealsData) ==
  IF dealsData = <<>> THEN <<>>
  ELSE LET before == StatusOptions(SubSeq(dealsData, 1, Len(dealsData) - 1))
           v == Or(dealsData[Len(dealsData)]["Deal Intent Status"],
                   dealsData[Len(dealsData)]["Deal Intent"])
       IN IF Truthy(v) /\ ~ArrayIncludes(before, v) THEN Append(before, v) ELSE before

\* a checkbox of the Deal Intent Status list
ToggleStatus(status) ==
  /\ ArrayIncludes(filterOptions.dealIntentStatuses, status)
  /\ handleFilterChange("dealIntentStatuses",
       IF ~ArrayIncludes(filters.dealIntentStatuses, status)
       THEN Append(filters.dealIntentStatuses, status)
       ELSE Without(filters.dealIntentStatuses, status))

\* a checkbox of the Deal Intent list
ToggleType(intent) ==
  /\ ArrayIncludes(filterOptions.dealIntentTypes, intent)
  /\ handleFilterChange("dealIntentTypes",
       IF ~ArrayIncludes(filters.dealIntentTypes, intent)
       THEN Append(filters.dealIntentTypes, intent)
       ELSE Without(filters.dealIntentTypes, intent))

\* the two date inputs: value is "YYYY-MM-DD", or "" when cleared
SetDateStart(value) == handleFilterChange("dateRange", <<value, filters.dateRange[2]>>)
SetDateEnd(value) == handleFilterChange("dateRange", <<filters.dateRange[1], value>>)

\* the broker checkbox and the radio buttons of the two flag filters
SetIncludeBrokers(checked) == handleFilterChange("includeBrokers", checked)
SetFlagFilter(filterType, value) == handleFilterChange(filterType, value)

\* the controls of the simplified dashboard, each a setFilters(prev => ...)
\* the vertical select: value is the option's string, "" for All
SimpleSetVertical(value) ==
  /\ value = <<>> \/ \E i \in 1..Len(filterOptions.verticals) :
                       value = ToStringChars(filterOptions.verticals[i])
  /\ simpleFilters' = [simpleFilters EXCEPT
                         !.verticals = IF value # <<>> THEN <<Str(value)>> ELSE <<>>]
  /\ UNCHANGED <<deals, filters, sortConfig, tz, ingestion, selectedDeals>>

\* the Min EBITDA number input: value is the input's string
SimpleSetMinEbitda(value) ==
  /\ simpleFilters' = [simpleFilters EXCEPT
                         !.ebitdaRange = <<parseInt(value), simpleFilters.ebitdaRange[2]>>]
  /\ UNCHANGED <<deals, filters, sortConfig, tz, ingestion, selectedDeals>>

\* the SmartShare select: "" is null, "true" is true, anything else false
SimpleSetSmartshare(value) ==
  /\ simpleFilters' = [simpleFilters EXCEPT
                         !.includeSmartshareEnabled =
                            IF value = <<>> THEN Null ELSE Bool(value = <<"t", "r", "u", "e">>)]
  /\ UNCHANGED <<deals, filters, sortConfig, tz, ingestion, selectedDeals>>

\* the Reset Filters button of the simplified dashboard
SimpleResetFilters ==
  /\ simpleFilters' = SimpleInitialFilters
  /\ UNCHANGED <<deals, filters, sortConfig, tz, ingestion, selectedDeals>>

\* ------------------------------------------------------------------------
\* Ingestion: fetchData and handleFileUpload
\* ------------------------------------------------------------------------
\* SHEET_URLS.length
NumSheetUrls == 5

\* the most fetchData invocations (file reads) in flight at a time
MaxFetches == 2

\* the defaults of useState for filterOptions
InitialFilterOptions ==
  [verticals |-> <<>>, activities |-> <<>>, regions |-> <<>>, states |-> <<>>,
   dealIntentStatuses |-> <<>>, dealIntentTypes |-> <<>>]

\* the options fetchData builds from the parsed rows
FilterOptionsOf(dealsData) ==
  [verticals |-> DistinctTruthy(dealsData, "Primary Supply Vertical"),
   activities |-> DistinctTruthy(dealsData, "Primary Supply Activity"),
   regions |-> DistinctTruthy(dealsData, "Region"),
   states |-> DistinctTruthy(dealsData, "State/Province"),
   dealIntentStatuses |-> StatusOptions(dealsData),
   dealIntentTypes |-> DistinctTruthy(dealsData, "Deal Intent")]

\* the options handleFileUpload builds from the parsed rows
SimpleFilterOptionsOf(dealsData) ==
  [verticals |-> DistinctTruthy(dealsData, "Primary Supply Vertical")]

\* the columns of the sheet in their order
SheetFields ==
  <<"Sellside Project: ID", "ID", "Deal ID", "Revenue", "EBITDA", "EBITDA Margin",
    "Total Pursuits", "Primary Supply Vertical",
    "Primary Supply Activity", "Region", "State/Province", "Account Owner",
    "SmartShare Enabled?", "Inbound Inquiry Enabled?", "Deal Intent Status", "Deal Intent",
    "Market Date", "Market Date (Date)">>

\* result.meta.fields: the header of the rows, taken to be the columns for
\* which some row holds a cell
RECURSIVE FieldsAmong(_, _)
FieldsAmong(fields, dealsData) ==
  IF fields = <<>> THEN <<>>
  ELSE (IF \E i \in 1..Len(dealsData) : dealsData[i][Head(fields)] # Undef
        THEN <<Head(fields)>> ELSE <<>>) \o FieldsAmong(Tail(fields), dealsData)

FieldsOf(dealsData) == FieldsAmong(SheetFields, dealsData)

\* a call of a state setter; the value of setFilters is what its updater
\* closes over
SetCall(name, value) == [set |-> name, value |-> value]

\* the set calls of fetchData before its first await
StartCalls == <<SetCall("loading", TRUE), SetCall("error", "")>>

\* the set calls of fetchData after its last URL failed
FailureCalls == <<SetCall("error", "All fetch attempts failed"), SetCall("loading", FALSE)>>

\* dealsData.some(d => !isNaN(parseFloat(d['EBITDA Margin'])))
NumericMargin(dealsData) ==
  \E i \in 1..Len(dealsData) :
    IsNum(parseFloat(ToStringChars(dealsData[i]["EBITDA Margin"])))

\* set calls that take the options from the dataset on display
IngestCallsStaleOptions(dealsData, headers, applied) ==
  <<SetCall("deals", dealsData),
    SetCall("columns", headers),
    SetCall("filterOptions", FilterOptionsOf(deals)),
    SetCall("lastRefresh", Num(Now)),
    SetCall("filters", [dealsData |-> dealsData, applied |-> applied]),
    SetCall("loading", FALSE)>>

\* the set calls of fetchData after a response parsed to rows
IngestCalls(dealsData, headers, applied) ==
  <<SetCall("deals", dealsData),
    SetCall("columns", headers),
    SetCall("filterOptions", FilterOptionsOf(dealsData)),
    SetCall("lastRefresh", Num(Now)),
    SetCall("filters", [dealsData |-> dealsData, applied |-> applied])>>
  \o (IF ArrayIncludes(headers, "EBITDA Margin") /\ NumericMargin(dealsData)
      THEN <<SetCall("sortConfig", [key |-> "EBITDA Margin", direction |-> "desc"])>>
      ELSE <<>>)
  \o <<SetCall("loading", FALSE)>>

\* the set calls of reader.onload after a file parsed without errors
UploadCalls(dealsData) ==
  <<SetCall("deals", dealsData),
    SetCall("filterOptions", SimpleFilterOptionsOf(dealsData))>>

\* the value of the state variable name after the calls, from current
RECURSIVE After(_, _, _)
After(calls, name, current) ==
  IF calls = <<>> THEN current
  ELSE After(Tail(calls), name,
             IF Head(calls).set # name THEN current ELSE Head(calls).value)

\* the value of filters after the calls, from current: setFilters is called
\* with an updater
RECURSIVE FiltersAfter(_, _)
FiltersAfter(calls, current) ==
  IF calls = <<>> THEN current
  ELSE FiltersAfter(Tail(calls),
                    IF Head(calls).set # "filters" THEN current
                    ELSE IngestFilters(current, Head(calls).value.dealsData,
                                       Head(calls).value.applied))

\* the set calls a continuation issues before it returns are committed in
\* one render (the root batches them)
Commit(calls) ==
  /\ deals' = After(calls, "deals", deals)
  /\ columns' = After(calls, "columns", columns)
  /\ filterOptions' = After(calls, "filterOptions", filterOptions)
  /\ lastRefresh' = After(calls, "lastRefresh", lastRefresh)
  /\ filters' = FiltersAfter(calls, filters)
  /\ sortConfig' = After(calls, "sortConfig", sortConfig)
  /\ loading' = After(calls, "loading", loading)
  /\ error' = After(calls, "error", error)

\* the invocation a new call of fetchData gets
FreeFetch == CHOOSE k \in 1..MaxFetches : fetches[k] = 0 /\ \A j \in 1..(k - 1) : fetches[j] # 0

\* the interval timer calls fetchData, which runs to its first await
TimerRefresh ==
  /\ \E k \in 1..MaxFetches : fetches[k] = 0
  /\ fetches' = [fetches EXCEPT ![FreeFetch] = 1]
  /\ Commit(StartCalls)
  /\ UNCHANGED <<tz, simpleFilters, defaultApplied, selectedDeals>>

\* the Refresh Data button, which the loading screen does not show
handleManualRefresh ==
  /\ ~loading
  /\ ~renderThrows
  /\ \E k \in 1..MaxFetches : fetches[k] = 0
  /\ fetches' = [fetches EXCEPT ![FreeFetch] = 1]
  /\ Commit(StartCalls)
  /\ UNCHANGED <<tz, simpleFilters, defaultApplied, selectedDeals>>

\* a variant of FetchFails that gives up at the first URL that fails
FetchFailsFast(k) ==
  /\ fetches[k] > 0
  /\ fetches' = [fetches EXCEPT ![k] = 0]
  /\ Commit(FailureCalls)
  /\ UNCHANGED <<tz, simpleFilters, defaultApplied, selectedDeals>>

\* a variant of FetchFails that starts over at the first URL after the last
FetchFailsRetrying(k) ==
  /\ fetches[k] > 0
  /\ fetches' = [fetches EXCEPT ![k] = IF fetches[k] < NumSheetUrls THEN fetches[k] + 1 ELSE 1]
  /\ UNCHANGED <<deals, filters, sortConfig, columns, filterOptions, loading, error,
                 lastRefresh>>
  /\ UNCHANGED <<tz, simpleFilters, defaultApplied, selectedDeals>>

\* the URL invocation k waits for fails (fetch rejects, the status is not
\* ok, the text is empty or has no rows): the next URL is tried, or after
\* the last one the error is set
FetchFails(k) ==
  /\ fetches[k] > 0
  /\ IF fetches[k] < NumSheetUrls
     THEN /\ fetches' = [fetches EXCEPT ![k] = fetches[k] + 1]
          /\ UNCHANGED <<deals, filters, sortConfig, columns, filterOptions, loading, error,
                         lastRefresh>>
     ELSE /\ fetches' = [fetches EXCEPT ![k] = 0]
          /\ Commit(FailureCalls)
  /\ UNCHANGED <<tz, simpleFilters, defaultApplied, selectedDeals>>

\* the URL invocation k waits for answers with a text that parses to the
\* rows dealsData
FetchSucceeds(k, dealsData) ==
  /\ fetches[k] > 0
  /\ Len(dealsData) > 0
  /\ fetches' = [fetches EXCEPT ![k] = 0]
  /\ defaultApplied' = TRUE
  /\ Commit(IngestCalls(dealsData, FieldsOf(dealsData), defaultApplied))
  /\ UNCHANGED <<tz, simpleFilters, selectedDeals>>

\* handleFileUpload of the simplified dashboard: a file was chosen and the
\* reader starts to read it
handleFileUpload ==
  /\ \E k \in 1..MaxFetches : fetches[k] = 0
  /\ fetches' = [fetches EXCEPT ![FreeFetch] = 1]
  /\ UNCHANGED <<deals, filters, sortConfig, tz, simpleFilters, columns, filterOptions,
                 loading, error, lastRefresh, defaultApplied, selectedDeals>>

\* reader.onload for read k: the text parses to the rows dealsData, with
\* errors or without
ReaderLoaded(k, dealsData, errors) ==
  /\ fetches[k] > 0
  /\ fetches' = [fetches EXCEPT ![k] = 0]
  /\ IF errors
     THEN UNCHANGED <<deals, filters, sortConfig, columns, filterOptions, loading, error,
                      lastRefresh>>
     ELSE Commit(UploadCalls(dealsData))
  /\ UNCHANGED <<tz, simpleFilters, defaultApplied, selectedDeals>>

\* ------------------------------------------------------------------------
\* Datasets and specifications
\* ------------------------------------------------------------------------
MaxDeals == 2
MaxRangeDeals == 2
MaxSortDeals == 3

TimeZones == {-5, 0, 2}

\* a record that the default filter specification keeps
BaseDeal ==
  [c \in Columns |->
     CASE c = "ID" -> Num(1)
       [] c = "Revenue" -> Num(3000000)
       [] c = "EBITDA" -> Num(2500000)
       [] c = "Total Pursuits" -> Num(10)
       [] c = "Primary Supply Vertical" -> Str(<<"R", "e", "t", "a", "i", "l">>)
       [] c = "Primary Supply Activity" -> Str(<<"S", "a", "l", "e", "s">>)
       [] c = "Region" -> Str(<<"W", "e", "s", "t">>)
       [] c = "State/Province" -> Str(<<"C", "A">>)
       [] c = "Account Owner" -> Str(<<"A", "n", "n">>)
       [] c = "SmartShare Enabled?" -> Num(1)
       [] c = "Inbound Inquiry Enabled?" -> Num(0)
       [] c = "Deal Intent Status" -> Str(<<"A", "c", "t", "i", "v", "e">>)
       [] c = "Deal Intent" -> Str(<<"S", "e", "l", "l", "-", "s", "i", "d", "e">>)
       [] c = "Market Date" -> Str(<<"1", "/", "5", "/", "2", "0", "2", "4">>)
       [] OTHER -> Undef]

\* the sequences of 1..n records of a pool
SeqsUpTo(pool, n) == UNION {[1..k -> pool] : k \in 1..n}

\* the state the first successful ingestion of a dataset leaves
Loaded(pool, n, zones) ==
  /\ deals \in SeqsUpTo(pool, n)
  /\ filters = IngestFilters(InitialFilters, deals, FALSE)
  /\ sortConfig = [key |-> "", direction |-> "asc"]
  /\ tz \in zones
  /\ simpleFilters = SimpleInitialFilters
  /\ columns = FieldsOf(deals)
  /\ filterOptions = FilterOptionsOf(deals)
  /\ loading = FALSE
  /\ error = ""
  /\ lastRefresh = Num(Now)
  /\ defaultApplied = TRUE
  /\ fetches = [k \in 1..MaxFetches |-> 0]
  /\ selectedDeals = <<>>

\* --- range filters ------------------------------------------------------
\* records whose range-filtered fields hold numbers, nothing (a missing
\* column), null (an empty cell) or a non-numeric string
RangePool ==
  {BaseDeal,
   [BaseDeal EXCEPT !["Revenue"] = Num(1000000)],
   [BaseDeal EXCEPT !["Revenue"] = Undef],
   [BaseDeal EXCEPT !["Revenue"] = Null],
   [BaseDeal EXCEPT !["Revenue"] = Str(<<"N", "/", "A">>)],
   [BaseDeal EXCEPT !["EBITDA"] = Undef],
   [BaseDeal EXCEPT !["Total Pursuits"] = Str(<<"N", "/", "A">>)]}

\* slider positions: millions of dollars, and pursuit counts
MoneySteps == {<<"0">>, <<"2">>, <<"3", ".", "5">>}
PursuitSteps == {<<"0">>, <<"2", "0">>}

InitRange == Loaded(RangePool, MaxRangeDeals, {0})

NextRange ==
  \/ \E v \in MoneySteps : SetRangeMin("revenueRange", v)
  \/ \E v \in MoneySteps : SetRangeMax("revenueRange", v)
  \/ \E v \in MoneySteps : SetRangeMin("ebitdaRange", v)
  \/ \E v \in MoneySteps : SetRangeMax("ebitdaRange", v)
  \/ \E v \in PursuitSteps : SetRangeMin("pursuitsRange", v)
  \/ \E v \in PursuitSteps : SetRangeMax("pursuitsRange", v)

SpecRange == InitRange /\ [][NextRange]_vars

RangeTypes == {"revenueRange", "ebitdaRange", "pursuitsRange"}

\* the field holds no number: it is missing, empty, or a string from which
\* no number can be read
NotNumeric(v) ==
  \/ v.t \in {"undef", "null"}
  \/ (v.t = "str" /\ ~IsNum(parseFloat(StripNonNumeric(v.s))))

InFiltered(deal) == \E j \in 1..Len(filteredDeals) : filteredDeals[j] = deal

\* C1: a record whose range-filtered field (Revenue, EBITDA, Total Pursuits)
\* is missing or non-numeric is compared as 0, so it is not in filteredDeals
\* whenever the minimum of that range is greater than 0.
C1_MissingRangeFieldComparedAsZero ==
  \A i \in 1..Len(deals) : \A ft \in RangeTypes :
    (NotNumeric(deals[i][RangeField(ft)]) /\ NumGt(filters[ft][1], Num(0)))
      => ~InFiltered(deals[i])

\* C4: whenever a numeric range filter has min > max, the filtered set is
\* empty.
C4_InvertedRangeGivesEmptySet ==
  (\E ft \in RangeTypes : NumGt(filters[ft][1], filters[ft][2])) => filteredDeals = <<>>


\* --- date filter --------------------------------------------------------
\* records whose Market Date is inside, on the edges of and outside the
\* default range, out of the calendar, of another shape, or no string
DatePool ==
  {BaseDeal,
   [BaseDeal EXCEPT !["Market Date"] = Str(<<"1", "/", "1", "0", "/", "2", "0", "2", "4">>)],
   [BaseDeal EXCEPT !["Market Date"] = Str(<<"1", "2", "/", "2", "7", "/", "2", "0", "2", "3">>)],
   [BaseDeal EXCEPT !["Market Date"] = Str(<<"2", "/", "1", "/", "2", "0", "2", "4">>)],
   [BaseDeal EXCEPT !["Market Date"] = Str(<<"1", "3", "/", "4", "0", "/", "2", "0", "2", "4">>)],
   [BaseDeal EXCEPT !["Market Date"] = Str(<<"a", "/", "b", "/", "c">>)],
   [BaseDeal EXCEPT !["Market Date"] = Str(<<"1", "/", "5">>)],
   [BaseDeal EXCEPT !["Market Date"] = Num(45296)],
   [BaseDeal EXCEPT !["Market Date"] = Undef, !["Market Date (Date)"] = Str(<<"2", "/", "1", "/", "2", "0", "2", "4">>)]}

\* values of a date input; the empty string is a cleared input
DateInputs == {<<"2", "0", "2", "4", "-", "0", "1", "-", "0", "1">>, <<"2", "0", "2", "4", "-", "0", "1", "-", "1", "0">>, <<"2", "0", "2", "4", "-", "0", "2", "-", "0", "1">>, <<>>}

InitDate == Loaded(DatePool, MaxDeals, TimeZones)

NextDate ==
  \/ \E v \in DateInputs : SetDateStart(v)
  \/ \E v \in DateInputs : SetDateEnd(v)

SpecDate == InitDate /\ [][NextDate]_vars

\* the Market Date the filter reads
MarketDate(deal) == Or(deal["Market Date"], deal["Market Date (Date)"])

\* the calendar date [y, mo, d] written by an M/D/YYYY string
MDY(str) ==
  LET parts == split(str, "/")
  IN [y |-> DigitsVal(parts[3]), mo |-> DigitsVal(parts[1]), d |-> DigitsVal(parts[2])]

\* a string of three non-empty all-digit segments naming a day of the calendar
ValidMDY(v) ==
  /\ v.t = "str"
  /\ LET parts == split(v.s, "/")
     IN /\ Len(parts) = 3
        /\ \A k \in 1..3 : parts[k] # <<>> /\ AllDigits(parts[k])
        /\ MDY(v.s).mo \in 1..12
        /\ MDY(v.s).d >= 1
        /\ MDY(v.s).d <= DaysInMonth(MDY(v.s).y, MDY(v.s).mo)

\* the day number of a "YYYY-MM-DD" string
ISODay(str) ==
  LET parts == split(str, "-")
  IN DaysFromCivil(DigitsVal(parts[1]), DigitsVal(parts[2]), DigitsVal(parts[3]))

\* C2: a record whose Market Date is not a valid M/D/YYYY calendar date
\* (wrong segment count, non-numeric segments, month or day out of range) is
\* never excluded by the date-range filter.
C2_InvalidDateNeverExcluded ==
  \A i \in 1..Len(deals) :
    ~ValidMDY(MarketDate(deals[i])) => (DatePass(deals[i], filters, tz) /\ InFiltered(deals[i]))

\* C3: a record with a parseable Market Date passes the date filter iff
\* start <= date <= end by calendar date, both edge days included, whatever
\* the offset between local time and UTC.
C3_DateRangeInclusiveByCalendarDate ==
  \A i \in 1..Len(deals) :
    (/\ ValidMDY(MarketDate(deals[i]))
     /\ IsNum(NewDateISO(filters.dateRange[1]))
     /\ IsNum(NewDateISO(filters.dateRange[2])))
    => LET c == MDY(MarketDate(deals[i]).s)
           day == DaysFromCivil(c.y, c.mo, c.d)
       IN DatePass(deals[i], filters, tz)
            <=> (ISODay(filters.dateRange[1]) <= day /\ day <= ISODay(filters.dateRange[2]))


\* --- flag filters -------------------------------------------------------
\* raw values of the SmartShare / Inbound Inquiry columns
FlagPool ==
  {[BaseDeal EXCEPT !["SmartShare Enabled?"] = v] :
     v \in {Num(1), Str(<<"1">>), Bool(TRUE), Str(<<"T", "R", "U", "E">>), Str(<<"T", "r", "u", "e">>),
            Str(<<"y", "e", "s">>), Num(0), Num(2), Undef}}
  \cup {[BaseDeal EXCEPT !["SmartShare Enabled?"] = Bool(FALSE),
                         !["Inbound Inquiry Enabled?"] = Str(<<"t", "r", "u", "e">>)],
        [BaseDeal EXCEPT !["SmartShare Enabled?"] = Bool(FALSE),
                         !["Inbound Inquiry Enabled?"] = Bool(FALSE)]}

TriState == {Bool(TRUE), Bool(FALSE), Null}

InitFlags == Loaded(FlagPool, MaxDeals, {0})

NextFlags ==
  \/ \E v \in TriState : SetFlagFilter("includeSmartshareEnabled", v)
  \/ \E v \in TriState : SetFlagFilter("includeInboundInquiryEnabled", v)

SpecFlags == InitFlags /\ [][NextFlags]_vars

\* the flag of a raw value as the specification words it
EnabledValue(v) ==
  \/ v \in {Num(1), Str(<<"1">>), Bool(TRUE)}
  \/ (v.t = "str" /\ toLowerCase(v.s) = <<"t", "r", "u", "e">>)

\* the flag predicate as the specification words it
FlagRule(deal, f) ==
  LET ss == EnabledValue(deal["SmartShare Enabled?"])
      ib == EnabledValue(deal["Inbound Inquiry Enabled?"])
      wantSs == f.includeSmartshareEnabled
      wantIb == f.includeInboundInquiryEnabled
  IN IF wantSs = Bool(TRUE) /\ wantIb = Bool(TRUE) THEN ss \/ ib
     ELSE /\ (wantSs = Bool(TRUE) => ss) /\ (wantSs = Bool(FALSE) => ~ss)
          /\ (wantIb = Bool(TRUE) => ib) /\ (wantIb = Bool(FALSE) => ~ib)

\* C8: with both flag filters true a record passes the flag predicate iff at
\* least one of its two flags is enabled; otherwise each flag filter that is
\* not null must equal the record's flag, and a null filter constrains
\* nothing. A record the rule rejects is not in filteredDeals.
C8_FlagFiltersOrCoupled ==
  \A i \in 1..Len(deals) :
    /\ FlagsPass(deals[i], filters) <=> FlagRule(deals[i], filters)
    /\ ~FlagRule(deals[i], filters) => ~InFiltered(deals[i])

\* both filters true, a record with only SmartShare enabled is kept and a
\* record with neither flag is dropped
C8_Witness ==
  /\ filters.includeSmartshareEnabled = Bool(TRUE)
  /\ filters.includeInboundInquiryEnabled = Bool(TRUE)
  /\ \E i \in 1..Len(deals) :
       /\ deals[i]["SmartShare Enabled?"] = Str(<<"T", "R", "U", "E">>)
       /\ deals[i]["Inbound Inquiry Enabled?"] = Num(0)
       /\ InFiltered(deals[i])
  /\ \E i \in 1..Len(deals) :
       /\ deals[i]["SmartShare Enabled?"] = Bool(FALSE)
       /\ deals[i]["Inbound Inquiry Enabled?"] = Bool(FALSE)
       /\ ~InFiltered(deals[i])

\* C9: a flag is computed as enabled iff the raw value is the number 1, the
\* string "1", boolean true, or a string equal to "TRUE" ignoring case; any
\* other value, a missing one included, is disabled.
C9_FlagEnabledValues ==
  \A i \in 1..Len(deals) : \A c \in {"SmartShare Enabled?", "Inbound Inquiry Enabled?"} :
    FlagEnabled(deals[i][c]) <=> EnabledValue(deals[i][c])

\* with only the SmartShare filter set to true, a record whose flag is the
\* string "True" is kept and a record whose flag is missing is dropped
C9_Witness ==
  /\ filters.includeSmartshareEnabled = Bool(TRUE)
  /\ filters.includeInboundInquiryEnabled = Null
  /\ \E i \in 1..Len(deals) :
       deals[i]["SmartShare Enabled?"] = Str(<<"T", "r", "u", "e">>) /\ InFiltered(deals[i])
  /\ \E i \in 1..Len(deals) :
       deals[i]["SmartShare Enabled?"] = Undef /\ ~InFiltered(deals[i])


\* --- sorting ------------------------------------------------------------
\* records whose sort columns hold numbers, equal numbers, a string with
\* embedded digits, a non-numeric string, nothing, and distinct dates
SortPool ==
  {BaseDeal,
   [BaseDeal EXCEPT !["ID"] = Num(2),
                    !["Market Date"] = Str(<<"1", "/", "1", "0", "/", "2", "0", "2", "4">>)],
   [BaseDeal EXCEPT !["ID"] = Num(3), !["Revenue"] = Str(<<"$", "1", "M">>),
                    !["Market Date"] = Str(<<"1", "2", "/", "2", "7", "/", "2", "0", "2", "3">>)],
   [BaseDeal EXCEPT !["ID"] = Num(4), !["Revenue"] = Str(<<"N", "/", "A">>),
                    !["Market Date"] = Undef]}

SortKeys == {"Revenue", "Market Date", "ID"}

InitSort == Loaded(SortPool, MaxSortDeals, {0})

NextSort == \E key \in SortKeys : handleSort(key)

SpecSort == InitSort /\ [][NextSort]_vars

Ascending == [key |-> sortConfig.key, direction |-> "asc"]
Descending == [key |-> sortConfig.key, direction |-> "desc"]

Reverse(seq) == [k \in 1..Len(seq) |-> seq[Len(seq) + 1 - k]]

\* no two distinct positions of the results c compare equal
NoTies(c) == \A i, j \in 1..Len(c) : i # j => c[i][j] # 0

\* the position of index i in the order p
PositionIn(p, i) == CHOOSE k \in DOMAIN p : p[k] = i

\* C6: for every sort key and direction the comparator is a strict weak
\* ordering (asymmetric, transitive, ties transitive) over the filtered
\* records, whatever mix of numbers, strings and missing values they hold.
C6_ComparatorIsStrictWeakOrder ==
  sortConfig.key # "" =>
    LET fd == filteredDeals
    IN /\ ConsistentComparator(fd, Ascending, tz)
       /\ ConsistentComparator(fd, Descending, tz)

\* C7 as stated: for every filtered set and sort key the ascending and the
\* descending sequence are exact reverses of each other.
C7_AscDescExactReverses ==
  sortConfig.key # "" =>
    LET fd == filteredDeals
        asc == SortedDeals(fd, Ascending, tz)
        desc == SortedDeals(fd, Descending, tz)
    IN \A a \in asc : \A d \in desc : d = Reverse(a)

\* C7 amended: both sequences are permutations of the filtered set; when the
\* comparator orders the records consistently, records that compare equal
\* keep their original relative order in both directions, records that do not
\* are in opposite orders, and the two sequences are exact reverses when,
\* besides, no two records compare equal. (With an inconsistent comparator
\* the order is implementation-defined.)
C7_AscDescReverseUpToTies ==
  sortConfig.key # "" =>
    LET fd == filteredDeals
        n == Len(fd)
        c == CompareSigns(fd, Ascending, tz)
        consistent == ConsistentSigns(c)
        noTies == NoTies(c)
        asc == SortOrders(fd, Ascending, tz)
        desc == SortOrders(fd, Descending, tz)
    IN /\ asc # {} /\ desc # {}
       /\ asc \subseteq Perms(n) /\ desc \subseteq Perms(n)
       /\ consistent =>
            \A pa \in asc : \A pd \in desc :
              /\ \A i, j \in 1..n :
                   /\ (i < j /\ c[i][j] = 0)
                        => /\ PositionIn(pa, i) < PositionIn(pa, j)
                           /\ PositionIn(pd, i) < PositionIn(pd, j)
                   /\ c[i][j] < 0
                        => /\ PositionIn(pa, i) < PositionIn(pa, j)
                           /\ PositionIn(pd, i) > PositionIn(pd, j)
              /\ noTies => Permuted(fd, pd) = Reverse(Permuted(fd, pa))

\* three records with distinct dates, sorted descending after two clicks on
\* the column: the descending order is the reverse of the ascending one
C7_Witness ==
  /\ sortConfig = [key |-> "Market Date", direction |-> "desc"]
  /\ LET fd == filteredDeals
         c == CompareSigns(fd, Ascending, tz)
     IN /\ Len(fd) = 3
        /\ NoTies(c)
        /\ ConsistentSigns(c)
        /\ \E d \in sortedDeals :
             /\ d # fd
             /\ Reverse(d) \in SortedDeals(fd, Ascending, tz)

\* --- the comparator's order of resolution (C22) ---------------------------
\* the value is a slash-delimited date: three segments whose integers make a
\* Date that is not invalid
ParsesAsSlashDate(v) ==
  /\ Truthy(v)
  /\ Len(split(ToStringChars(v), "/")) = 3
  /\ IsNum(DealDate(split(ToStringChars(v), "/"), tz))

SlashDate(v) == DealDate(split(ToStringChars(v), "/"), tz)

\* the value with every character other than digits, '.' and '-' stripped,
\* parsed as a number
StrippedNumber(v) == parseFloat(StripNonNumeric(ToStringChars(v)))

\* the sign s as the direction of sortConfig turns it
Directed(s) == IF sortConfig.direction = "asc" THEN s ELSE 0 - s

\* the sign the three rules give for the values x and y, first applicable wins
ResolvedSign(x, y) ==
  IF /\ includes(toLowerCase(KeyChars(sortConfig.key)), dATE)
     /\ ParsesAsSlashDate(x) /\ ParsesAsSlashDate(y)
    THEN Directed(NumSign(SlashDate(x), SlashDate(y)))
  ELSE IF IsNum(StrippedNumber(x)) /\ IsNum(StrippedNumber(y))
    THEN Directed(NumSign(StrippedNumber(x), StrippedNumber(y)))
  ELSE IF Lt(x, y) THEN Directed(-1)
  ELSE IF Gt(x, y) THEN Directed(1)
  ELSE 0

\* C22: with a sort key, the comparator resolves in this order, first
\* applicable wins: if the key contains "date" ignoring case and both values
\* parse as slash-delimited dates it compares the dates; else if both values,
\* stripped of every character other than digits, '.' and '-', parse as
\* numbers it compares them numerically; else it compares the raw values with
\* less-than and greater-than, and returns 0 when neither is less.
C22_ComparatorResolutionOrder ==
  sortConfig.key # "" =>
    \A i, j \in 1..Len(filteredDeals) :
      Compare(filteredDeals[i], filteredDeals[j], sortConfig, tz)
        = ResolvedSign(filteredDeals[i][sortConfig.key], filteredDeals[j][sortConfig.key])

\* sorted by Market Date ascending, 12/27/2023 comes before 1/5/2024 by date
\* though its digits make the larger number, and a record without a date
\* compares equal to both
C22_Witness ==
  /\ sortConfig = [key |-> "Market Date", direction |-> "asc"]
  /\ \E i, j, k \in 1..Len(filteredDeals) :
       /\ filteredDeals[i]["Market Date"] = Str(<<"1", "2", "/", "2", "7", "/", "2", "0", "2", "3">>)
       /\ filteredDeals[j]["Market Date"] = Str(<<"1", "/", "5", "/", "2", "0", "2", "4">>)
       /\ filteredDeals[k]["Market Date"] = Undef
       /\ Compare(filteredDeals[i], filteredDeals[j], sortConfig, tz) < 0
       /\ NumLt(StrippedNumber(filteredDeals[j]["Market Date"]),
                StrippedNumber(filteredDeals[i]["Market Date"]))
       /\ Compare(filteredDeals[k], filteredDeals[j], sortConfig, tz) = 0

\* --- grouping, and the filtered set as a part of the dataset --------------
\* records of two verticals and two activities, one without either (an
\* empty cell and a missing column), one below the default EBITDA minimum
GroupPool ==
  {BaseDeal,
   [BaseDeal EXCEPT !["ID"] = Num(2), !["Primary Supply Vertical"] = Str(<<"I", "n", "d", "u", "s", "t", "r", "i", "a", "l">>),
                    !["SmartShare Enabled?"] = Num(0), !["Inbound Inquiry Enabled?"] = Num(1)],
   [BaseDeal EXCEPT !["ID"] = Num(3), !["Primary Supply Vertical"] = Null,
                    !["Primary Supply Activity"] = Undef],
   [BaseDeal EXCEPT !["ID"] = Num(4), !["Primary Supply Activity"] = Str(<<"O", "p", "s">>),
                    !["EBITDA"] = Num(1000000)],
   [BaseDeal EXCEPT !["ID"] = Num(5), !["Primary Supply Vertical"] = Str(<<"c", "o", "n", "s", "t", "r", "u", "c", "t", "o", "r">>)]}

VerticalOptions == {Str(<<"R", "e", "t", "a", "i", "l">>), Str(<<"I", "n", "d", "u", "s", "t", "r", "i", "a", "l">>)}
SimpleVerticalValues == {<<>>, <<"R", "e", "t", "a", "i", "l">>, <<"I", "n", "d", "u", "s", "t", "r", "i", "a", "l">>}
SimpleEbitdaInputs == {<<"0">>, <<"2", "0", "0", "0", "0", "0", "0">>}
SimpleSmartshareValues == {<<>>, <<"t", "r", "u", "e">>, <<"f", "a", "l", "s", "e">>}

InitGroup == Loaded(GroupPool, MaxDeals, {0})

NextGroup ==
  \/ \E option \in VerticalOptions : ToggleOption("verticals", option)
  \/ \E value \in SimpleVerticalValues : SimpleSetVertical(value)
  \/ \E value \in SimpleEbitdaInputs : SimpleSetMinEbitda(value)
  \/ \E value \in SimpleSmartshareValues : SimpleSetSmartshare(value)
  \/ SimpleResetFilters

SpecGroup == InitGroup /\ [][NextGroup]_vars

\* the sum of the counts of the groups of data whose count is a number
RECURSIVE SumOfCounts(_)
SumOfCounts(data) ==
  IF data = <<>> THEN 0
  ELSE (IF IsNum(Head(data).value) THEN Head(data).value.m ELSE 0) + SumOfCounts(Tail(data))

\* the numerators of the percentages of data that are numbers, which share
\* the denominator
RECURSIVE SumOfPercentages(_)
SumOfPercentages(data) ==
  IF data = <<>> THEN 0 ELSE Head(data).percentage.num + SumOfPercentages(Tail(data))

\* every count of data is a number
AllCounted(data) == \A k \in 1..Len(data) : IsNum(data[k].value)

\* a percentage of data is a number over n when the count is a number, and
\* NaN when it is not, which happens for the name of an inherited function
SameDenominator(data, n) ==
  \A k \in 1..Len(data) :
    IF IsNum(data[k].value) THEN data[k].percentage.den = n
    ELSE data[k].percentage.den = 0 /\ data[k].name \in InheritedFunctions

\* the records of fd whose grouping value is not empty
NonEmptyCount(fd, field) == Cardinality({i \in 1..Len(fd) : Truthy(fd[i][field])})

\* the records of fd whose grouping value is not empty and does not name a
\* property a plain object inherits
PlainCount(fd, field) ==
  Cardinality({i \in 1..Len(fd) :
                 /\ Truthy(fd[i][field])
                 /\ ToStringChars(fd[i][field]) \notin InheritedFunctions \cup {ProtoAccessor}})

\* the percentages of data sum to 100 and its counts to n
SumsToWhole(data, n) ==
  /\ AllCounted(data)
  /\ SumOfCounts(data) = n
  /\ SameDenominator(data, n)
  /\ SumOfPercentages(data) = 100 * n

\* the counts of data that are numbers sum to the k records with a plain
\* value out of n, and their percentages to 100 * k / n
SumsToPart(data, k, n) ==
  /\ SumOfCounts(data) = k
  /\ SameDenominator(data, n)
  /\ SumOfPercentages(data) = 100 * k
  /\ (AllCounted(data) /\ SumOfPercentages(data) = 100 * n <=> k = n)

\* C5 as stated: for every non-empty filtered set and every grouping field
\* the percentages of the returned groups sum to 100, i.e. the group counts
\* sum to the number of filtered records.
C5_GroupPercentagesSumTo100 ==
  /\ Len(filteredDeals) > 0 =>
       /\ \A data \in verticalChartData : SumsToWhole(data, Len(filteredDeals))
       /\ \A data \in activityChartData : SumsToWhole(data, Len(filteredDeals))
  /\ Len(simpleFilteredDeals) > 0 =>
       SumsToWhole(simpleVerticalChartData, Len(simpleFilteredDeals))

\* C5 amended: for every non-empty filtered set and every grouping field the
\* group counts sum to the number of filtered records whose value of the
\* field is not empty and names no inherited property, and the percentages
\* to 100 times that number over the number of filtered records: to 100
\* exactly when every filtered record has such a value. A group for the
\* name of an inherited function has no number as count and NaN as
\* percentage.
C5_GroupCountsSumToNonEmpty ==
  /\ Len(filteredDeals) > 0 =>
       /\ \A data \in verticalChartData :
            SumsToPart(data, PlainCount(filteredDeals, "Primary Supply Vertical"),
                       Len(filteredDeals))
       /\ \A data \in activityChartData :
            SumsToPart(data, PlainCount(filteredDeals, "Primary Supply Activity"),
                       Len(filteredDeals))
  /\ Len(simpleFilteredDeals) > 0 =>
       SumsToPart(simpleVerticalChartData,
                  PlainCount(simpleFilteredDeals, "Primary Supply Vertical"),
                  Len(simpleFilteredDeals))

\* two filtered records, one of them without a vertical: one group of one
\* record at 50 percent, in both dashboards
C5_Witness ==
  /\ Len(filteredDeals) = 2
  /\ NonEmptyCount(filteredDeals, "Primary Supply Vertical") = 1
  /\ \A data \in verticalChartData :
       /\ Len(data) = 1
       /\ data[1].value = Num(1)
       /\ data[1].percentage = [num |-> 100, den |-> 2]
  /\ simpleFilters # SimpleInitialFilters
  /\ Len(simpleFilteredDeals) = 2
  /\ SumOfPercentages(simpleVerticalChartData) = 100

\* data has exactly one group per distinct non-empty value of the field in
\* fd, each with the number of records of that value as count
OneGroupPerValue(data, fd, field) ==
  /\ \A i \in 1..Len(fd) :
       Truthy(fd[i][field]) =>
         \E k \in 1..Len(data) : data[k].name = ToStringChars(fd[i][field])
  /\ \A k \in 1..Len(data) :
       /\ \E i \in 1..Len(fd) :
            Truthy(fd[i][field]) /\ ToStringChars(fd[i][field]) = data[k].name
       /\ \A j \in 1..Len(data) : data[j].name = data[k].name => j = k
       /\ data[k].value = Num(CountOf(fd, field, data[k].name))

\* the counts of data are numbers in non-increasing order
NonIncreasingCounts(data) ==
  \A j, k \in 1..Len(data) :
    j < k => IsNum(data[j].value) /\ IsNum(data[k].value)
             /\ ~NumLt(data[j].value, data[k].value)

\* C17: for a non-empty filtered set the aggregate view of a grouping field
\* has exactly one group per distinct non-empty value of the field, the
\* count of a group is the number of filtered records with that value,
\* records with an empty or missing value are in no group, and the groups
\* are in non-increasing order of count.
C17_OneGroupPerValueByCount ==
  Len(filteredDeals) > 0 =>
    /\ \A data \in verticalChartData :
         /\ OneGroupPerValue(data, filteredDeals, "Primary Supply Vertical")
         /\ NonIncreasingCounts(data)
    /\ \A data \in activityChartData :
         /\ OneGroupPerValue(data, filteredDeals, "Primary Supply Activity")
         /\ NonIncreasingCounts(data)

RECURSIVE IsSubsequence(_, _)
IsSubsequence(sub, seq) ==
  IF sub = <<>> THEN TRUE
  ELSE IF seq = <<>> THEN FALSE
  ELSE IF Head(sub) = Head(seq) THEN IsSubsequence(Tail(sub), Tail(seq))
  ELSE IsSubsequence(sub, Tail(seq))

\* C10: in both dashboards filteredDeals is a subsequence of deals: every
\* output record is an input record, none appears more often than in the
\* input, and the relative order of the input is kept.
C10_FilteredIsSubsequence ==
  /\ IsSubsequence(filteredDeals, deals)
  /\ IsSubsequence(simpleFilteredDeals, deals)

\* two different records of which the full dashboard keeps both in a
\* dataset where the vertical filter is set, and the simplified one only
\* the second
C10_Witness ==
  /\ Len(deals) = 2 /\ deals[1] # deals[2]
  /\ Len(filters.verticals) = 2
  /\ filteredDeals = deals
  /\ simpleFilteredDeals = <<deals[2]>>


\* --- the range predicate on numbers ---------------------------------------
\* a <= b on Numbers: false as soon as one side is NaN
NumLe(a, b) == IsNum(a) /\ IsNum(b) /\ ~NumLt(b, a)

\* C11: for a record whose range-filtered field holds a number v, the range
\* predicate passes iff min <= v <= max, both bounds included, for each of
\* revenueRange, ebitdaRange and pursuitsRange.
C11_RangeInclusiveOnNumbers ==
  \A i \in 1..Len(deals) : \A ft \in RangeTypes :
    IsNum(deals[i][RangeField(ft)]) =>
      (RangePass(deals[i][RangeField(ft)], filters[ft])
         <=> /\ NumLe(filters[ft][1], deals[i][RangeField(ft)])
             /\ NumLe(deals[i][RangeField(ft)], filters[ft][2]))


\* --- deal intent status and type ------------------------------------------
\* records whose Deal Intent Status is in another case, empty with a Deal
\* Intent to fall back on, another status, or a number
IntentPool ==
  {BaseDeal,
   [BaseDeal EXCEPT !["ID"] = Num(2), !["Deal Intent Status"] = Str(<<"A", "C", "T", "I", "V", "E">>)],
   [BaseDeal EXCEPT !["ID"] = Num(3), !["Deal Intent Status"] = Null,
                    !["Deal Intent"] = Str(<<"A", "c", "t", "i", "v", "e">>)],
   [BaseDeal EXCEPT !["ID"] = Num(4), !["Deal Intent Status"] = Str(<<"C", "l", "o", "s", "e", "d">>)],
   [BaseDeal EXCEPT !["ID"] = Num(5), !["Deal Intent Status"] = Num(5)]}

StatusValues == {Str(<<"A", "c", "t", "i", "v", "e">>), Str(<<"A", "C", "T", "I", "V", "E">>), Str(<<"C", "l", "o", "s", "e", "d">>), Num(5)}
TypeValues == {Str(<<"S", "e", "l", "l", "-", "s", "i", "d", "e">>), Str(<<"A", "c", "t", "i", "v", "e">>)}

InitIntent == Loaded(IntentPool, MaxDeals, {0})

NextIntent ==
  \/ \E status \in StatusValues : ToggleStatus(status)
  \/ \E intent \in TypeValues : ToggleType(intent)

SpecIntent == InitIntent /\ [][NextIntent]_vars

\* the characters of a value as text, letters folded to lower case
Folded(v) == toLowerCase(ToStringChars(v))

\* the allowed statuses are all strings
AllStrings(allowed) == \A k \in 1..Len(allowed) : allowed[k].t = "str"

\* C12 as stated: with a non-empty dealIntentStatuses set a record passes the
\* status predicate iff the value of its Deal Intent Status field equals,
\* ignoring case, at least one allowed status; an empty set does not restrict.
C12_StatusMatchesIgnoringCase ==
  \A i \in 1..Len(deals) :
    AllStrings(filters.dealIntentStatuses) =>
      (StatusPass(deals[i], filters)
         <=> \/ Len(filters.dealIntentStatuses) = 0
             \/ /\ deals[i]["Deal Intent Status"].t \notin {"undef", "null"}
                /\ \E k \in 1..Len(filters.dealIntentStatuses) :
                     Folded(deals[i]["Deal Intent Status"]) = Folded(filters.dealIntentStatuses[k]))

\* the value the status predicate reads: the Deal Intent Status, the Deal
\* Intent when that is empty, the empty string when both are
StatusOrIntent(deal) ==
  IF Truthy(deal["Deal Intent Status"]) THEN deal["Deal Intent Status"]
  ELSE IF Truthy(deal["Deal Intent"]) THEN deal["Deal Intent"]
  ELSE Str(<<>>)

\* C12 amended: with a non-empty dealIntentStatuses set of strings a record
\* passes the status predicate iff the text of its Deal Intent Status, or of
\* its Deal Intent when the status is empty, equals, ignoring case, at least
\* one allowed status; an empty set does not restrict; a record the predicate
\* rejects is not in filteredDeals. An allowed status that is not a string
\* makes the predicate throw on every record that no allowed status before
\* it matches.
C12_StatusOrIntentMatchesIgnoringCase ==
  \A i \in 1..Len(deals) :
    LET allowed == filters.dealIntentStatuses
        matches(k) == allowed[k].t = "str" /\ Folded(StatusOrIntent(deals[i])) = Folded(allowed[k])
    IN /\ AllStrings(allowed) =>
            /\ StatusPass(deals[i], filters) <=> (Len(allowed) = 0 \/ \E k \in 1..Len(allowed) : matches(k))
            /\ ~StatusPass(deals[i], filters) => ~InFiltered(deals[i])
       /\ StatusThrows(deals[i], filters)
            <=> \E k \in 1..Len(allowed) :
                  allowed[k].t # "str" /\ \A j \in 1..(k - 1) : ~matches(j)

\* after the status "Closed" is checked besides "active": a record with
\* status "ACTIVE" and a record with status "Closed" are kept
C12_Witness ==
  /\ Len(filters.dealIntentStatuses) = 2
  /\ AllStrings(filters.dealIntentStatuses)
  /\ \E i \in 1..Len(deals) :
       deals[i]["Deal Intent Status"] = Str(<<"A", "C", "T", "I", "V", "E">>) /\ InFiltered(deals[i])
  /\ \E i \in 1..Len(deals) :
       deals[i]["Deal Intent Status"] = Str(<<"C", "l", "o", "s", "e", "d">>) /\ InFiltered(deals[i])

\* C15: evaluating the filter on a record never raises, whatever scalar type
\* each of its fields holds, a Market Date that is no string included: every
\* record yields pass or fail.
C15_FilterNeverRaises ==
  \A i \in 1..Len(deals) : ~DealThrows(deals[i], filters, tz)


\* --- category filters and the broker filter -------------------------------
\* records whose region differs in case only or is missing, whose state is
\* empty, and whose owner is a broker in two spellings or missing
CategoryPool ==
  {BaseDeal,
   [BaseDeal EXCEPT !["ID"] = Num(2), !["Region"] = Str(<<"w", "e", "s", "t">>),
                    !["Primary Supply Vertical"] = Str(<<"I", "n", "d", "u", "s", "t", "r", "i", "a", "l">>),
                    !["Account Owner"] = Str(<<"B", "r", "o", "k", "e", "r">>)],
   [BaseDeal EXCEPT !["ID"] = Num(3), !["Region"] = Undef, !["State/Province"] = Null,
                    !["Primary Supply Activity"] = Str(<<"O", "p", "s">>),
                    !["Account Owner"] = Str(<<"B", "R", "O", "K", "E", "R">>)],
   [BaseDeal EXCEPT !["ID"] = Num(4), !["Primary Supply Vertical"] = Undef,
                    !["Account Owner"] = Undef]}

CategoryTypes == {"verticals", "activities", "regions", "states"}

CategoryOptions(filterType) ==
  CASE filterType = "verticals" -> {Str(<<"I", "n", "d", "u", "s", "t", "r", "i", "a", "l">>)}
    [] filterType = "activities" -> {Str(<<"O", "p", "s">>)}
    [] filterType = "regions" -> {Str(<<"W", "e", "s", "t">>), Str(<<"w", "e", "s", "t">>)}
    [] filterType = "states" -> {Str(<<"C", "A">>)}

InitCategory == Loaded(CategoryPool, MaxDeals, {0})

NextCategory ==
  \/ \E ft \in CategoryTypes : \E option \in CategoryOptions(ft) : ToggleOption(ft, option)
  \/ \E checked \in BOOLEAN : SetIncludeBrokers(checked)
  \/ \E value \in {<<>>, <<"I", "n", "d", "u", "s", "t", "r", "i", "a", "l">>} : SimpleSetVertical(value)

SpecCategory == InitCategory /\ [][NextCategory]_vars

\* v is one of the allowed values: the same type and, for text, the same
\* characters in the same case
ExactMember(v, allowed) == \E k \in 1..Len(allowed) : allowed[k] = v

\* C13: for each of the vertical, activity, region and state filters an empty
\* allowed set excludes no record, and a non-empty one keeps a record iff the
\* record's raw field value is an exact, case-sensitive member of the set; a
\* record whose field is missing is excluded. The same for the vertical
\* filter of the simplified dashboard.
C13_CategoryExactMembership ==
  \A i \in 1..Len(deals) :
    /\ \A ft \in CategoryTypes :
         LET v == deals[i][OptionField(ft)]
             kept == Len(filters[ft]) = 0 \/ ExactMember(v, filters[ft])
         IN /\ CategoryPass(v, filters[ft]) <=> kept
            /\ ~kept => ~InFiltered(deals[i])
            /\ (Len(filters[ft]) > 0 /\ v.t \in {"undef", "null"}) => ~InFiltered(deals[i])
    /\ LET v == deals[i]["Primary Supply Vertical"]
           kept == Len(simpleFilters.verticals) = 0 \/ ExactMember(v, simpleFilters.verticals)
       IN /\ ~kept => \A j \in 1..Len(simpleFilteredDeals) : simpleFilteredDeals[j] # deals[i]
          /\ (kept /\ SimpleDealPasses(deals[i], [simpleFilters EXCEPT !.verticals = <<>>]))
               => \E j \in 1..Len(simpleFilteredDeals) : simpleFilteredDeals[j] = deals[i]

\* the region "West" is checked: a record of region "West" is kept, one of
\* region "west" and one without a region are dropped; the simplified
\* dashboard is set to the vertical "Industrial" and drops a record without
\* a vertical
C13_Witness ==
  /\ filters.regions = <<Str(<<"W", "e", "s", "t">>)>>
  /\ \E i \in 1..Len(deals) : deals[i]["Region"] = Str(<<"W", "e", "s", "t">>) /\ InFiltered(deals[i])
  /\ \E i \in 1..Len(deals) :
       deals[i]["Region"] \in {Str(<<"w", "e", "s", "t">>), Undef} /\ ~InFiltered(deals[i])
  /\ simpleFilters.verticals = <<Str(<<"I", "n", "d", "u", "s", "t", "r", "i", "a", "l">>)>>
  /\ Len(simpleFilteredDeals) < Len(deals)

\* the owner is the text "broker" in any case
IsBroker(v) == v.t = "str" /\ toLowerCase(v.s) = <<"b", "r", "o", "k", "e", "r">>

\* C14: a record is excluded by the broker predicate iff includeBrokers is
\* false and its Account Owner equals "broker" ignoring case; with
\* includeBrokers true, or the owner missing or different, the predicate
\* excludes nothing.
C14_BrokerExcludedUnlessIncluded ==
  \A i \in 1..Len(deals) :
    /\ ~BrokerPass(deals[i], filters)
         <=> (filters.includeBrokers = FALSE /\ IsBroker(deals[i]["Account Owner"]))
    /\ ~BrokerPass(deals[i], filters) => ~InFiltered(deals[i])

\* brokers excluded: a record owned by "Broker" is dropped and one without an
\* owner is kept
C14_Witness ==
  /\ filters.includeBrokers = FALSE
  /\ \E i \in 1..Len(deals) :
       deals[i]["Account Owner"] = Str(<<"B", "r", "o", "k", "e", "r">>) /\ ~InFiltered(deals[i])
  /\ \E i \in 1..Len(deals) :
       deals[i]["Account Owner"] = Undef /\ InFiltered(deals[i])


\* --- no sort key ----------------------------------------------------------
\* C16: when the sort specification has no key, sortedDeals equals
\* filteredDeals element for element in the same order, for either direction.
C16_NoKeyKeepsFilteredOrder ==
  /\ sortConfig.key = "" => sortedDeals = {filteredDeals}
  /\ \A direction \in {"asc", "desc"} :
       SortedDeals(filteredDeals, [key |-> "", direction |-> direction], tz) = {filteredDeals}

\* no key is set and three filtered records stand in an order that is not
\* the order of their IDs
C16_Witness ==
  /\ sortConfig.key = ""
  /\ Len(filteredDeals) = 3
  /\ NumLt(filteredDeals[2]["ID"], filteredDeals[1]["ID"])
  /\ NumLt(filteredDeals[2]["ID"], filteredDeals[3]["ID"])
  /\ sortedDeals = {filteredDeals}

\* ------------------------------------------------------------------------
\* Summary statistics (C18)
\* ------------------------------------------------------------------------
\* the sum of the values of the field in fd that are numbers: a value that
\* is missing or no number counts as 0
RECURSIVE NumericSum(_, _)
NumericSum(fd, field) ==
  IF fd = <<>> THEN Num(0)
  ELSE NumAdd(NumericSum(Tail(fd), field),
              IF IsNum(Head(fd)[field]) THEN Head(fd)[field] ELSE Num(0))

\* C18: for a non-empty filtered set summaryStats has totalDeals equal to
\* the number of filtered records, totalRevenue and totalEBITDA equal to the
\* numeric sums of the field with every missing or non-numeric value
\* counted as 0, and avgRevenue / avgEBITDA equal to the total divided by
\* totalDeals.
C18_SummaryTotalsAndAverages ==
  /\ Len(filteredDeals) > 0 =>
       /\ summaryStats.totalDeals = Len(filteredDeals)
       /\ summaryStats.totalRevenue = NumericSum(filteredDeals, "Revenue")
       /\ summaryStats.totalEBITDA = NumericSum(filteredDeals, "EBITDA")
       /\ summaryStats.avgRevenue
            = [num |-> NumericSum(filteredDeals, "Revenue"), den |-> Len(filteredDeals)]
       /\ summaryStats.avgEBITDA
            = [num |-> NumericSum(filteredDeals, "EBITDA"), den |-> Len(filteredDeals)]
  /\ Len(simpleFilteredDeals) > 0 =>
       /\ simpleSummaryStats.totalDeals = Len(simpleFilteredDeals)
       /\ simpleSummaryStats.avgEBITDA
            = [num |-> NumericSum(simpleFilteredDeals, "EBITDA"),
               den |-> Len(simpleFilteredDeals)]

\* ------------------------------------------------------------------------
\* Ingestion (C20)
\* ------------------------------------------------------------------------
\* the state after the component has mounted: the effect has called
\* fetchData, which waits for its first URL
Mounted ==
  /\ deals = <<>>
  /\ filters = InitialFilters
  /\ sortConfig = [key |-> "", direction |-> "asc"]
  /\ tz = 0
  /\ simpleFilters = SimpleInitialFilters
  /\ columns = <<>>
  /\ filterOptions = InitialFilterOptions
  /\ loading = TRUE
  /\ error = ""
  /\ lastRefresh = Null
  /\ defaultApplied = FALSE
  /\ fetches = [k \in 1..MaxFetches |-> IF k = 1 THEN 1 ELSE 0]
  /\ selectedDeals = <<>>

\* the rows the sheet answers with: one record; one record of another
\* vertical in a sheet without the Account Owner column; two records, one of
\* a larger revenue, in a sheet with an EBITDA Margin column
FetchPool ==
  {<<BaseDeal>>,
   <<[BaseDeal EXCEPT !["ID"] = Num(2), !["Account Owner"] = Undef,
                      !["Primary Supply Vertical"] = Str(<<"I", "n", "d", "u", "s", "t", "r", "i", "a", "l">>)]>>,
   <<[BaseDeal EXCEPT !["EBITDA Margin"] = Dec(25, 2)],
     [BaseDeal EXCEPT !["ID"] = Num(3), !["EBITDA Margin"] = Dec(4, 1),
                      !["Revenue"] = Num(5000000),
                      !["Region"] = Str(<<"E", "a", "s", "t">>)]>>}

\* the headers clicked while the fetches run
FetchSortKeys == {"EBITDA", "EBITDA Margin"}

\* the positions the lower revenue slider is moved to while the fetches run
FetchSliderSteps == {<<"4">>}

InitFetch == Mounted

NextFetch ==
  \/ TimerRefresh
  \/ handleManualRefresh
  \/ \E k \in 1..MaxFetches : FetchFails(k)
  \/ \E k \in 1..MaxFetches : \E dealsData \in FetchPool : FetchSucceeds(k, dealsData)
  \/ \E option \in VerticalOptions :
       ~loading /\ ToggleOption("verticals", option)
  \/ \E key \in FetchSortKeys : ~loading /\ handleSort(key)
  \/ \E value \in FetchSliderSteps : ~loading /\ SetRangeMin("revenueRange", value)

SpecFetch == InitFetch /\ [][NextFetch]_vars

\* the simplified dashboard after it has mounted
SimpleMounted ==
  /\ deals = <<>>
  /\ filters = InitialFilters
  /\ sortConfig = [key |-> "", direction |-> "asc"]
  /\ tz = 0
  /\ simpleFilters = SimpleInitialFilters
  /\ columns = <<>>
  /\ filterOptions = SimpleFilterOptionsOf(<<>>)
  /\ loading = FALSE
  /\ error = ""
  /\ lastRefresh = Null
  /\ defaultApplied = FALSE
  /\ fetches = [k \in 1..MaxFetches |-> 0]
  /\ selectedDeals = <<>>

InitUpload == SimpleMounted

NextUpload ==
  \/ handleFileUpload
  \/ \E k \in 1..MaxFetches : \E dealsData \in FetchPool \cup {<<>>} : \E errors \in BOOLEAN :
       ReaderLoaded(k, dealsData, errors)
  \/ \E value \in SimpleVerticalValues : SimpleSetVertical(value)
  \/ \E value \in SimpleEbitdaInputs : SimpleSetMinEbitda(value)
  \/ \E value \in SimpleSmartshareValues : SimpleSetSmartshare(value)

SpecUpload == InitUpload /\ [][NextUpload]_vars

C20_OneFileInEveryState == filterOptions = SimpleFilterOptionsOf(deals)

C19_EmptyFilteredSetGivesNoViews ==
  /\ Len(filteredDeals) = 0 =>
       /\ verticalChartData = {<<>>}
       /\ activityChartData = {<<>>}
       /\ summaryStats = Null
  /\ Len(simpleFilteredDeals) = 0 =>
       /\ simpleVerticalChartData = <<>>
       /\ simpleSummaryStats = Null

\* a dataset is on display and the filters keep none of its records
C19_Witness ==
  /\ Len(deals) > 0
  /\ ~loading
  /\ Len(filteredDeals) = 0
  /\ summaryStats = Null
  /\ verticalChartData = {<<>>}

\* ------------------------------------------------------------------------
\* Sort specification under ingestion (C21)
\* ------------------------------------------------------------------------
\* C21: the sort specification changes only by the user's sort action: every
\* step that changes sortConfig is a handleSort step, so an ingestion, on
\* first load or on a later refresh, leaves key and direction as they were.
C21_SortConfigChangesOnlyByHandleSort ==
  [][sortConfig' # sortConfig => \E key \in FetchSortKeys : handleSort(key)]_vars

\* ------------------------------------------------------------------------
\* The URLs of one invocation (C23)
\* ------------------------------------------------------------------------
\* the source invocation k waits for succeeds in this step
Succeeds(k) == \E dealsData \in FetchPool : FetchSucceeds(k, dealsData)

\* C23: within one fetchData invocation the five sources are attempted in
\* list order: an invocation starts at the first, moves from source i to
\* source i + 1 only in a step in which source i fails, ends before the fifth
\* has failed only by a success, after which it attempts no source, and the
\* error message is set only in the step in which the fifth fails.
C23_SourcesInOrderErrorAfterAllFailed ==
  [][/\ \A k \in 1..MaxFetches :
          \/ fetches'[k] = fetches[k]
          \/ fetches[k] = 0 /\ fetches'[k] = 1
          \/ /\ fetches[k] \in 1..(NumSheetUrls - 1)
             /\ fetches'[k] = fetches[k] + 1
             /\ FetchFails(k) /\ error' = error
          \/ /\ fetches[k] \in 1..NumSheetUrls
             /\ fetches'[k] = 0
             /\ Succeeds(k) /\ error' = error
          \/ /\ fetches[k] = NumSheetUrls
             /\ fetches'[k] = 0
             /\ FetchFails(k)
     /\ (error' # error /\ error' # "") =>
          \E k \in 1..MaxFetches :
            fetches[k] = NumSheetUrls /\ fetches'[k] = 0 /\ FetchFails(k)]_vars

\* one invocation has failed on all five sources while a second one, started
\* later, waits for its third
C23_Witness ==
  /\ error # ""
  /\ ~loading
  /\ \E k \in 1..MaxFetches : fetches[k] = 3

\* ------------------------------------------------------------------------
\* Termination of an invocation (C24)
\* ------------------------------------------------------------------------
\* every request an invocation waits for eventually resolves or rejects
RequestsSettle ==
  \A k \in 1..MaxFetches : WF_vars(FetchFails(k) \/ Succeeds(k))

SpecFetchFair == SpecFetch /\ RequestsSettle

\* C24: every fetchData invocation whose requests all resolve or reject
\* terminates, by the success of one source or the failure of all five, and
\* loading is false when it has terminated.
C24_InvocationTerminatesLoadingFalse ==
  /\ \A k \in 1..MaxFetches : (fetches[k] > 0) ~> (fetches[k] = 0)
  /\ [][\A k \in 1..MaxFetches :
          (fetches[k] > 0 /\ fetches'[k] = 0) =>
            /\ loading' = FALSE
            /\ Succeeds(k) \/ (fetches[k] = NumSheetUrls /\ FetchFails(k))]_vars

\* the invocation has terminated by a success: no request is in flight and
\* the dataset of two rows is on display
C24_Witness ==
  /\ \A k \in 1..MaxFetches : fetches[k] = 0
  /\ ~loading
  /\ Len(deals) = 2

\* ------------------------------------------------------------------------
\* Outcome of an invocation (C25)
\* ------------------------------------------------------------------------
\* C25: when a fetchData invocation fails on all sources, deals, columns,
\* filterOptions, filters, sortConfig and lastRefresh keep their values and
\* error is non-empty; when it succeeds, error is empty and lastRefresh is
\* updated.
C25_FailureKeepsStateSuccessClearsError ==
  [][\A k \in 1..MaxFetches :
       /\ (fetches[k] = NumSheetUrls /\ FetchFails(k)) =>
            /\ UNCHANGED <<deals, columns, filterOptions, filters, sortConfig, lastRefresh>>
            /\ error' # ""
       /\ Succeeds(k) =>
            /\ error' = ""
            /\ lastRefresh' = Num(Now)]_vars

\* ------------------------------------------------------------------------
\* Default ranges (C26)
\* ------------------------------------------------------------------------
RangeFilters == {"revenueRange", "ebitdaRange", "pursuitsRange"}

\* the lower bound the first ingestion gives a range
DefaultMin(filterType) ==
  IF filterType = "ebitdaRange" THEN Num(DefaultEbitdaMin) ELSE Num(0)

\* C26: the default range filters are applied exactly once, on the first
\* successful ingestion; every later successful refresh keeps the lower bound
\* of each range filter and leaves every non-range field of the filter
\* specification unchanged, replacing only the upper bounds by the maxima of
\* the new dataset.
C26_DefaultRangesAppliedOnce ==
  [][/\ defaultApplied => defaultApplied'
     /\ \A k \in 1..MaxFetches :
          Succeeds(k) =>
            /\ defaultApplied'
            /\ \A f \in RangeFilters :
                 /\ filters'[f][2] = MaxOf(deals', RangeField(f))
                 /\ filters'[f][1] = IF defaultApplied THEN filters[f][1] ELSE DefaultMin(f)
            /\ \A f \in (DOMAIN filters) \ RangeFilters : filters'[f] = filters[f]]_vars

\* the lower revenue bound the user set at 4000000 on a dataset reaching
\* 5000000 has outlived a refresh whose dataset reaches 3000000 only
C26_Witness ==
  /\ defaultApplied
  /\ filters.revenueRange = <<Num(4000000), Num(3000000)>>
  /\ filters.ebitdaRange[1] = Num(DefaultEbitdaMin)

\* ------------------------------------------------------------------------
\* The sort action (C28)
\* ------------------------------------------------------------------------
\* C28: after handleSort(k) the sort key is k and the direction is "desc" if
\* and only if the previous key was k with direction "asc", otherwise "asc":
\* clicks on one column alternate, another column starts ascending.
C28_SortActionTogglesDirection ==
  [][\A k \in SortKeys :
       handleSort(k) =>
         /\ sortConfig'.key = k
         /\ sortConfig'.direction \in {"asc", "desc"}
         /\ sortConfig'.direction = "desc"
              <=> (sortConfig.key = k /\ sortConfig.direction = "asc")
         /\ (sortConfig.key = k /\ sortConfig.direction = "desc")
              => sortConfig'.direction = "asc"
         /\ sortConfig.key # k => sortConfig'.direction = "asc"]_vars

\* the ID column has been clicked twice in a row
C28_Witness ==
  /\ sortConfig = [key |-> "ID", direction |-> "desc"]
  /\ Len(filteredDeals) = 2

\* ------------------------------------------------------------------------
\* Selection and reset (C29, C30)
\* ------------------------------------------------------------------------
\* records the default filters keep: two of one resolved identifier (by ID
\* and by Sellside Project: ID), one identified by Deal ID only, and two with
\* no identifier (an ID of 0, an empty ID cell)
SelectPool ==
  {BaseDeal,
   [BaseDeal EXCEPT !["ID"] = Num(2), !["Sellside Project: ID"] = Num(1),
                    !["Account Owner"] = Str(<<"B", "r", "o", "k", "e", "r">>)],
   [BaseDeal EXCEPT !["ID"] = Undef, !["Deal ID"] = Str(<<"D", "3">>),
                    !["Primary Supply Vertical"] = Str(<<"I", "n", "d", "u", "s", "t", "r", "i", "a", "l">>)],
   [BaseDeal EXCEPT !["ID"] = Num(0)],
   [BaseDeal EXCEPT !["ID"] = Null, !["Revenue"] = Num(5000000)]}

SelectSortKeys == {"ID"}

\* the records the rows of the table show
Rows == LET fd == filteredDeals IN {fd[i] : i \in 1..Len(fd)}

InitSelect == Loaded(SelectPool, MaxDeals, {0})

NextSelect ==
  \/ \E deal \in Rows : toggleDealSelection(deal)
  \/ ClearSelection
  \/ resetFilters
  \/ \E option \in VerticalOptions : ToggleOption("verticals", option)
  \/ \E checked \in BOOLEAN : SetIncludeBrokers(checked)
  \/ \E key \in SelectSortKeys : handleSort(key)

SpecSelect == InitSelect /\ [][NextSelect]_vars

\* the entries of the selection whose resolved identifier is the one of deal
SameId(deal) ==
  {i \in 1..Len(selectedDeals) : StrictEq(ResolvedId(selectedDeals[i]), ResolvedId(deal))}

\* C29: after any sequence of toggleDealSelection, resetFilters and Clear
\* Selection actions, selectedDeals never holds two entries of the same
\* resolved identifier (Sellside Project: ID, else ID, else Deal ID); toggling
\* a deal whose identifier is selected removes the entry of that identifier
\* and keeps the others in their order, otherwise it appends the deal.
C29_SelectionHasNoDuplicateId ==
  /\ [](\A i, j \in 1..Len(selectedDeals) :
          i # j => ~StrictEq(ResolvedId(selectedDeals[i]), ResolvedId(selectedDeals[j])))
  /\ [][\A deal \in Rows :
          toggleDealSelection(deal) =>
            IF SameId(deal) # {}
            THEN selectedDeals' = SelectSeq(selectedDeals,
                                    LAMBDA d : ~StrictEq(ResolvedId(d), ResolvedId(deal)))
            ELSE selectedDeals' = Append(selectedDeals, deal)]_vars

\* the table shows two different records of one resolved identifier, the
\* one found by its Sellside Project: ID is selected
C29_Witness ==
  /\ Len(selectedDeals) = 1
  /\ \E a, b \in Rows :
       /\ a # b
       /\ StrictEq(ResolvedId(a), ResolvedId(b))
       /\ selectedDeals[1] = b
       /\ a["ID"] = Num(1)

\* C30: resetFilters empties selectedDeals and sets the filter specification
\* to the defaults for the current dataset, the specification the first
\* successful ingestion of that dataset establishes: ranges [0, max revenue],
\* [2000000, max EBITDA], [0, max pursuits], empty category sets, the
\* last-14-days date range, brokers excluded, both flags required, statuses
\* ['active'], types ['sell'], whatever the filters were before; sortConfig and
\* deals are unchanged.
C30_ResetRestoresDefaults ==
  [][resetFilters =>
       /\ selectedDeals' = <<>>
       /\ filters' = IngestFilters(InitialFilters, deals, FALSE)
       /\ filters'.revenueRange = <<Num(0), MaxOf(deals, "Revenue")>>
       /\ filters'.ebitdaRange = <<Num(2000000), MaxOf(deals, "EBITDA")>>
       /\ filters'.pursuitsRange = <<Num(0), MaxOf(deals, "Total Pursuits")>>
       /\ \A ft \in {"verticals", "activities", "regions", "states"} : filters'[ft] = <<>>
       /\ filters'.dateRange = <<ISODateOfHours(Now - 14 * HoursPerDay), ISODateOfHours(Now)>>
       /\ filters'.includeBrokers = FALSE
       /\ filters'.includeSmartshareEnabled = Bool(TRUE)
       /\ filters'.includeInboundInquiryEnabled = Bool(TRUE)
       /\ filters'.dealIntentStatuses = <<Str(<<"a", "c", "t", "i", "v", "e">>)>>
       /\ filters'.dealIntentTypes = <<Str(<<"s", "e", "l", "l">>)>>
       /\ sortConfig' = sortConfig
       /\ deals' = deals]_vars

\* the table is sorted by ID, descending, and the filter specification is the
\* default one of a dataset whose largest revenue is 5000000, with no record
\* selected
C30_Witness ==
  /\ sortConfig = [key |-> "ID", direction |-> "desc"]
  /\ selectedDeals = <<>>
  /\ filters = IngestFilters(InitialFilters, deals, FALSE)
  /\ filters.revenueRange = <<Num(0), Num(5000000)>>

\* ------------------------------------------------------------------------
\* The simplified filter against the full one (C27)
\* ------------------------------------------------------------------------
\* records the defaults of the full dashboard keep: one whose EBITDA is the
\* upper bound of the simplified range, one whose SmartShare cell reads
\* "True" (a text the parser leaves a string), one with the flag 0
RefinePool ==
  {[BaseDeal EXCEPT !["EBITDA"] = Num(SimpleEbitdaMax)],
   [BaseDeal EXCEPT !["ID"] = Num(2), !["SmartShare Enabled?"] = Str(<<"T", "r", "u", "e">>)],
   [BaseDeal EXCEPT !["ID"] = Num(3), !["SmartShare Enabled?"] = Num(0),
                    !["Inbound Inquiry Enabled?"] = Num(1)]}

RefineVerticals == {Str(<<"R", "e", "t", "a", "i", "l">>)}
RefineSimpleVerticals == {<<>>, <<"R", "e", "t", "a", "i", "l">>}
RefineSliderSteps == {<<"0">>, <<"2">>}
RefineEbitdaInputs == {<<"0">>, <<"2", "0", "0", "0", "0", "0", "0">>}

InitRefine == Loaded(RefinePool, MaxDeals, {0})

NextRefine ==
  \/ \E v \in {Null, Bool(TRUE)} : SetFlagFilter("includeInboundInquiryEnabled", v)
  \/ \E v \in TriState : SetFlagFilter("includeSmartshareEnabled", v)
  \/ \E option \in RefineVerticals : ToggleOption("verticals", option)
  \/ \E value \in RefineSliderSteps : SetRangeMin("ebitdaRange", value)
  \/ \E value \in RefineSimpleVerticals : SimpleSetVertical(value)
  \/ \E value \in RefineEbitdaInputs : SimpleSetMinEbitda(value)
  \/ \E value \in SimpleSmartshareValues : SimpleSetSmartshare(value)

SpecRefine == InitRefine /\ [][NextRefine]_vars

\* every predicate of the full filter other than the vertical set, the EBITDA
\* range and the SmartShare tri-state keeps every record of the dataset
OthersUnrestricted ==
  /\ filters.includeInboundInquiryEnabled = Null
  /\ \A i \in 1..Len(deals) :
       /\ RangePass(deals[i]["Revenue"], filters.revenueRange)
       /\ RangePass(deals[i]["Total Pursuits"], filters.pursuitsRange)
       /\ CategoryPass(deals[i]["Primary Supply Activity"], filters.activities)
       /\ CategoryPass(deals[i]["Region"], filters.regions)
       /\ CategoryPass(deals[i]["State/Province"], filters.states)
       /\ BrokerPass(deals[i], filters)
       /\ StatusPass(deals[i], filters)
       /\ TypePass(deals[i], filters)
       /\ DatePass(deals[i], filters, tz)

\* the two filter specifications restrict the three alike
SameRestriction ==
  /\ filters.verticals = simpleFilters.verticals
  /\ filters.ebitdaRange = simpleFilters.ebitdaRange
  /\ filters.includeSmartshareEnabled = simpleFilters.includeSmartshareEnabled

\* C27: for filter specifications that restrict only the vertical set, the
\* EBITDA range and the SmartShare tri-state, the simplified dashboard keeps
\* exactly the records the full dashboard keeps, for every dataset.
C27_SimplifiedKeepsWhatFullKeeps ==
  (OthersUnrestricted /\ SameRestriction) => simpleFilteredDeals = filteredDeals

====
